---- MODULE Spec2Model ----
(***************************************************************************)
(* Credit-card statement parser: text acquisition, the shared             *)
(* normalizers and card-suffix locator, the five issuer extractors, the   *)
(* confidence scorer and the dispatcher.                                   *)
(*                                                                         *)
(* A text is a sequence of characters; a character is a one-letter string, *)
(* and the few non-ASCII characters of the sources are written by name:    *)
(* "rupee", "euro", "pound", "bullet", "endash".                           *)
(***************************************************************************)
EXTENDS Integers, Sequences, FiniteSets, TLC

\* Python's None, told apart from every text
None == <<"None">>

(***************************************************************************)
(* Characters and Python's character classes.                              *)
(***************************************************************************)
Digits == {"0", "1", "2", "3", "4", "5", "6", "7", "8", "9"}

\* str.lower() on one character
LowerOf ==
    [c \in {"A", "B", "C", "D", "E", "F", "G", "H", "I", "J", "K", "L", "M",
            "N", "O", "P", "Q", "R", "S", "T", "U", "V", "W", "X", "Y", "Z"} |->
        CASE c = "A" -> "a" [] c = "B" -> "b" [] c = "C" -> "c" [] c = "D" -> "d"
          [] c = "E" -> "e" [] c = "F" -> "f" [] c = "G" -> "g" [] c = "H" -> "h"
          [] c = "I" -> "i" [] c = "J" -> "j" [] c = "K" -> "k" [] c = "L" -> "l"
          [] c = "M" -> "m" [] c = "N" -> "n" [] c = "O" -> "o" [] c = "P" -> "p"
          [] c = "Q" -> "q" [] c = "R" -> "r" [] c = "S" -> "s" [] c = "T" -> "t"
          [] c = "U" -> "u" [] c = "V" -> "v" [] c = "W" -> "w" [] c = "X" -> "x"
          [] c = "Y" -> "y" [] c = "Z" -> "z"]

Lower(c) == IF c \in DOMAIN LowerOf THEN LowerOf[c] ELSE c

\* str.lower()
LowerText(txt) == [k \in 1..Len(txt) |-> Lower(txt[k])]

\* \s : whitespace
SpaceChars == {" ", "\n", "\t"}

\* \w : word characters
WordChars == Digits \cup DOMAIN LowerOf \cup {LowerOf[c] : c \in DOMAIN LowerOf} \cup {"_"}

\* the glyphs normalize_currency removes besides the comma and whitespace
CurrencyGlyphs == {"rupee", "$", "euro", "pound"}

(***************************************************************************)
(* Regular expressions as Python's re module matches them: a backtracking  *)
(* matcher that tries the alternatives in Python's order (the first branch *)
(* of an alternation first, the longest run of a greedy repetition first,  *)
(* the shortest of a lazy one) and reports the first way that matches the  *)
(* whole expression.  A match state is the position of the next character  *)
(* to read and the spans of capture groups 1 and 2.                        *)
(***************************************************************************)
\* every search of the sources that involves a letter passes re.IGNORECASE:
\* literals and classes are kept in lower case and matched on the lowered text
Lit(w) == [t |-> "lit", w |-> [k \in 1..Len(w) |-> Lower(w[k])]]
Set(s) == [t |-> "set", s |-> {Lower(c) : c \in s}]
AnyChar == [t |-> "any"]
Cat(a) == [t |-> "cat", a |-> a]
Alt(a) == [t |-> "alt", a |-> a]
Rep(r, lo, hi, greedy) == [t |-> "rep", r |-> r, lo |-> lo, hi |-> hi, greedy |-> greedy]
Grp(n, r) == [t |-> "grp", n |-> n, r |-> r]
NotAhead(r) == [t |-> "nla", r |-> r]
WordBoundary == [t |-> "wb"]
\* closes capture group n opened at position from
EndGrp(n, from) == [t |-> "end", n |-> n, from |-> from]

Inf == -1
Star(r) == Rep(r, 0, Inf, TRUE)
Plus(r) == Rep(r, 1, Inf, TRUE)
Opt(r) == Rep(r, 0, 1, TRUE)
LazyStar(r) == Rep(r, 0, Inf, FALSE)
Times(r, n) == Rep(r, n, n, TRUE)

Ws == Set(SpaceChars)
Dg == Set(Digits)

MState(p) == [ok |-> TRUE, pos |-> p, g1 |-> <<0, 0>>, g2 |-> <<0, 0>>]
Failed == [ok |-> FALSE, pos |-> 0, g1 |-> <<0, 0>>, g2 |-> <<0, 0>>]

\* of the attempts (option number, outcome) the successful one with the
\* highest option number, or with the lowest
Pick(tries, highest) ==
    LET ok == {t \in tries : t[2].ok}
    IN  IF ok = {} THEN Failed
        ELSE IF highest THEN (CHOOSE t \in ok : \A u \in ok : u[1] <= t[1])[2]
        ELSE (CHOOSE t \in ok : \A u \in ok : t[1] <= u[1])[2]

SetMin(S) == CHOOSE x \in S : \A y \in S : x <= y
SetMax(S) == CHOOSE x \in S : \A y \in S : y <= x

\* does literal w stand at position p of txt
LitAt(w, txt, p) ==
    /\ p + Len(w) - 1 <= Len(txt)
    /\ \A k \in 1..Len(w) : txt[p + k - 1] = w[k]

IsWordAt(txt, p) == p >= 1 /\ p <= Len(txt) /\ txt[p] \in WordChars

\* does the one-character expression r (a class or the dot) accept c
CharOk(r, c) == IF r.t = "any" THEN c # "\n" ELSE c \in r.s

\* how many characters from position p on r accepts in a row, at most hi
RunLength(r, hi, txt, p) ==
    LET room == Len(txt) - p + 1
        cap == IF hi = Inf \/ hi > room THEN room ELSE hi
        bad == {k \in 0..(cap - 1) : ~CharOk(r, txt[p + k])}
    IN  IF bad = {} THEN cap ELSE SetMin(bad)

\* Match(todo, txt, st): the first way to match the expressions of todo one
\* after the other from state st; Failed if there is none.  txt is lowered.
RECURSIVE Match(_, _, _)
Match(todo, txt, st) ==
    IF todo = <<>> THEN st
    ELSE
    LET r == Head(todo)
        rest == Tail(todo)
        At(p) == [st EXCEPT !.pos = p]
    IN  CASE r.t = "lit" ->
                IF LitAt(r.w, txt, st.pos) THEN Match(rest, txt, At(st.pos + Len(r.w)))
                ELSE Failed
          [] r.t \in {"set", "any"} ->
                IF st.pos <= Len(txt) /\ CharOk(r, txt[st.pos])
                THEN Match(rest, txt, At(st.pos + 1))
                ELSE Failed
          [] r.t = "cat" -> Match(r.a \o rest, txt, st)
          [] r.t = "alt" ->
                Pick({<<k, Match(<<r.a[k]>> \o rest, txt, st)>> : k \in 1..Len(r.a)}, FALSE)
          [] r.t = "rep" /\ r.r.t \in {"set", "any"} ->
                \* every unbounded repetition of the sources is over one
                \* character class: its longest run is measured directly
                LET run == RunLength(r.r, r.hi, txt, st.pos)
                    tries == {<<k, Match(rest, txt, At(st.pos + k))>> : k \in r.lo..run}
                IN  Pick(tries, r.greedy)
          [] r.t = "rep" /\ r.r.t \notin {"set", "any"} ->
                LET again == IF r.hi = 0 THEN Failed
                             ELSE Match(<<r.r, Rep(r.r, IF r.lo > 0 THEN r.lo - 1 ELSE 0,
                                                  r.hi - 1, r.greedy)>> \o rest, txt, st)
                    stop == IF r.lo = 0 THEN Match(rest, txt, st) ELSE Failed
                IN  IF r.greedy THEN (IF again.ok THEN again ELSE stop)
                    ELSE (IF stop.ok THEN stop ELSE again)
          [] r.t = "grp" -> Match(<<r.r, EndGrp(r.n, st.pos)>> \o rest, txt, st)
          [] r.t = "end" ->
                Match(rest, txt, IF r.n = 1 THEN [st EXCEPT !.g1 = <<r.from, st.pos>>]
                                 ELSE [st EXCEPT !.g2 = <<r.from, st.pos>>])
          [] r.t = "nla" ->
                IF Match(<<r.r>>, txt, st).ok THEN Failed ELSE Match(rest, txt, st)
          [] r.t = "wb" ->
                IF IsWordAt(txt, st.pos - 1) # IsWordAt(txt, st.pos)
                THEN Match(rest, txt, st) ELSE Failed

NoMatch == [found |-> FALSE]

\* re.match at position p
MatchAt(r, txt, p) ==
    LET m == Match(<<r>>, txt, MState(p))
    IN  IF ~m.ok THEN NoMatch
        ELSE [found |-> TRUE, start |-> p, end |-> m.pos, g1 |-> m.g1, g2 |-> m.g2]

\* the characters a match of r can begin with; {"any"} when that is not
\* known from the head of the expression
RECURSIVE FirstChars(_)
FirstChars(r) ==
    CASE r.t = "lit" -> {r.w[1]}
      [] r.t = "set" -> r.s
      [] r.t = "cat" -> FirstChars(r.a[1])
      [] r.t = "alt" -> UNION {FirstChars(r.a[k]) : k \in 1..Len(r.a)}
      [] r.t = "rep" -> IF r.lo = 0 THEN {"any"} ELSE FirstChars(r.r)
      [] r.t = "grp" -> FirstChars(r.r)
      [] OTHER -> {"any"}

\* re.search from position p on: the leftmost match.  low is the lowered text.
SearchFrom(r, low, p) ==
    LET Starts(first) == {q \in p..(Len(low) + 1) :
                             "any" \in first \/ (q <= Len(low) /\ low[q] \in first)}
        Span(t) == [found |-> TRUE, start |-> t[1], end |-> t[2].pos,
                    g1 |-> t[2].g1, g2 |-> t[2].g2]
        Leftmost(found) ==
            IF found = {} THEN NoMatch
            ELSE Span(CHOOSE t \in found : \A u \in found : t[1] <= u[1])
    IN  Leftmost({t \in {<<q, Match(<<r>>, low, MState(q))>> : q \in Starts(FirstChars(r))} :
                     t[2].ok})

\* re.search(pattern, text, re.IGNORECASE)
Search(r, txt) == SearchFrom(r, LowerText(txt), 1)

RECURSIVE FindIterFrom(_, _, _)
\* list(re.finditer(pattern, text)): the non-overlapping matches, left to right
FindIterFrom(r, low, p) ==
    LET Then(m) ==
            IF ~m.found THEN <<>>
            ELSE <<m>> \o FindIterFrom(r, low, IF m.end > m.start THEN m.end ELSE m.end + 1)
    IN  Then(SearchFrom(r, low, p))

FindIter(r, txt) == FindIterFrom(r, LowerText(txt), 1)

\* text[i:j] with 1-based, end-exclusive positions
Slice(txt, i, j) == IF j <= i THEN <<>> ELSE SubSeq(txt, i, j - 1)

\* match.group(n)
Group(m, txt, n) == IF n = 1 THEN Slice(txt, m.g1[1], m.g1[2]) ELSE Slice(txt, m.g2[1], m.g2[2])

(***************************************************************************)
(* The words of the sources' patterns and keyword lists.                   *)
(***************************************************************************)
\* the words of the patterns and keyword lists
W ==
  [
    XXXX |-> <<"X", "X", "X", "X">>,
    Card |-> <<"C", "a", "r", "d">>,
    Account |-> <<"A", "c", "c", "o", "u", "n", "t">>,
    Number |-> <<"N", "u", "m", "b", "e", "r">>,
    Ending |-> <<"E", "n", "d", "i", "n", "g">>,
    OneCard |-> <<"O", "n", "e", "C", "a", "r", "d">>,
    HDFC |-> <<"H", "D", "F", "C">>,
    AMEX |-> <<"A", "M", "E", "X">>,
    AmericanExpress |-> <<"A", "m", "e", "r", "i", "c", "a", "n", " ", "E", "x", "p", "r", "e", "s", "s">>,
    FirstCitizens |-> <<"F", "i", "r", "s", "t", "C", "i", "t", "i", "z", "e", "n", "s">>,
    No |-> <<"N", "o">>,
    in |-> <<"i", "n">>,
    Payment |-> <<"P", "a", "y", "m", "e", "n", "t">>,
    Due |-> <<"D", "u", "e">>,
    Date |-> <<"D", "a", "t", "e">>,
    Minimum |-> <<"M", "i", "n", "i", "m", "u", "m">>,
    Amount |-> <<"A", "m", "o", "u", "n", "t">>,
    New |-> <<"N", "e", "w">>,
    Balance |-> <<"B", "a", "l", "a", "n", "c", "e">>,
    Total |-> <<"T", "o", "t", "a", "l">>,
    Statement |-> <<"S", "t", "a", "t", "e", "m", "e", "n", "t">>,
    Period |-> <<"P", "e", "r", "i", "o", "d">>,
    Billing |-> <<"B", "i", "l", "l", "i", "n", "g">>,
    Cycle |-> <<"C", "y", "c", "l", "e">>,
    Opening |-> <<"O", "p", "e", "n", "i", "n", "g">>,
    Closing |-> <<"C", "l", "o", "s", "i", "n", "g">>
  ]

(***************************************************************************)
(* Python string operations on texts.                                      *)
(***************************************************************************)
\* str.strip(): without leading and trailing whitespace
Strip(txt) ==
    LET solid == {k \in 1..Len(txt) : txt[k] \notin SpaceChars}
    IN  IF solid = {} THEN <<>> ELSE SubSeq(txt, SetMin(solid), SetMax(solid))

\* needle in hay
Contains(hay, needle) ==
    \E p \in 1..(Len(hay) - Len(needle) + 1) :
        \A k \in 1..Len(needle) : hay[p + k - 1] = needle[k]

\* text.split('\n')
SplitLines(txt) ==
    LET brk == {k \in 1..Len(txt) : txt[k] = "\n"}
        n == Cardinality(brk) + 1
        \* position of the i-th newline; 0 and Len + 1 close the text
        Nl(i) == IF i = 0 THEN 0
                 ELSE IF i = n THEN Len(txt) + 1
                 ELSE CHOOSE k \in brk : Cardinality({j \in brk : j < k}) = i - 1
    IN  [i \in 1..n |-> Slice(txt, Nl(i - 1) + 1, Nl(i))]

\* "\n".join(parts)
RECURSIVE JoinLines(_)
JoinLines(parts) ==
    IF parts = <<>> THEN <<>>
    ELSE IF Len(parts) = 1 THEN parts[1]
    ELSE parts[1] \o <<"\n">> \o JoinLines(Tail(parts))

DigitVal(c) ==
    CASE c = "0" -> 0 [] c = "1" -> 1 [] c = "2" -> 2 [] c = "3" -> 3 [] c = "4" -> 4
      [] c = "5" -> 5 [] c = "6" -> 6 [] c = "7" -> 7 [] c = "8" -> 8 [] c = "9" -> 9

DigitChar(n) ==
    CASE n = 0 -> "0" [] n = 1 -> "1" [] n = 2 -> "2" [] n = 3 -> "3" [] n = 4 -> "4"
      [] n = 5 -> "5" [] n = 6 -> "6" [] n = 7 -> "7" [] n = 8 -> "8" [] n = 9 -> "9"

\* int(s) for a string of digits
RECURSIVE ToInt(_)
ToInt(s) ==
    IF s = <<>> THEN 0
    ELSE 10 * ToInt(SubSeq(s, 1, Len(s) - 1)) + DigitVal(s[Len(s)])

\* 1900 <= int(last4) <= 2099
IsYear(last4) == 1900 <= ToInt(last4) /\ ToInt(last4) <= 2099

(***************************************************************************)
(* Optional values.  A field of a record holds a text or None; a number is *)
(* held as the text Python prints for the float (1234.56, 25.0).           *)
(***************************************************************************)

\* an argument of normalize_currency: None, a string, or an int/float
NoneArg == [kind |-> "none"]
StrArg(s) == [kind |-> "str", s |-> s]
NumArg(v) == [kind |-> "num", s |-> v]

(***************************************************************************)
(* normalize_currency                                                      *)
(***************************************************************************)
\* a variant of CleanCurrency that keeps the thousands separators: C10 tells
\* the two apart
CleanCurrencyKeepCommas(s) == SelectSeq(s, LAMBDA c : c \notin (CurrencyGlyphs \cup SpaceChars))

\* re.sub(r'[₹$€£,\s]', '', s)
CleanCurrency(s) == SelectSeq(s, LAMBDA c : c \notin (CurrencyGlyphs \cup {","} \cup SpaceChars))

\* the digits of s without leading zeros, "0" when none is left
StripLeadingZeros(s) ==
    LET nz == {k \in 1..Len(s) : s[k] # "0"}
    IN  IF nz = {} THEN <<"0">> ELSE SubSeq(s, SetMin(nz), Len(s))

\* the digits of s without trailing zeros, "0" when none is left
StripTrailingZeros(s) ==
    LET nz == {k \in 1..Len(s) : s[k] # "0"}
    IN  IF nz = {} THEN <<"0">> ELSE SubSeq(s, 1, SetMax(nz))

\* float(s) for s over digits, the point and a sign; a ValueError is None.
\* (float also reads exponents, inf, nan and underscores between digits:
\* no text of this model holds e, i, n or _ inside an amount.)
ParseFloat(s) ==
    LET signed == s # <<>> /\ s[1] \in {"+", "-"}
        body == IF signed THEN Tail(s) ELSE s
        dots == {k \in 1..Len(body) : body[k] = "."}
        wellFormed == /\ \A k \in 1..Len(body) : body[k] \in Digits \cup {"."}
                      /\ Cardinality(dots) <= 1
                      /\ \E k \in 1..Len(body) : body[k] \in Digits
        dot == IF dots = {} THEN Len(body) + 1 ELSE SetMin(dots)
        whole == StripLeadingZeros(Slice(body, 1, dot))
        frac == StripTrailingZeros(Slice(body, dot + 1, Len(body) + 1))
    IN  IF ~wellFormed THEN None
        ELSE (IF signed /\ s[1] = "-" THEN <<"-">> ELSE <<>>) \o whole \o <<".">> \o frac

normalize_currency(value) ==
    IF value.kind = "none" THEN None
    ELSE IF value.kind = "num" THEN value.s
    ELSE LET cleaned == CleanCurrency(value.s)
         IN  IF cleaned = <<>> THEN None ELSE ParseFloat(cleaned)

(***************************************************************************)
(* normalize_date: dateutil's parser with dayfirst=True, yearfirst=False,  *)
(* for dates of three members (two numbers and a month name, or three      *)
(* numbers) separated by blanks, "/" or "-".  A string with an unknown     *)
(* word or with another number of members is taken as unparseable.         *)
(***************************************************************************)
\* the current year, against which dateutil resolves a two-digit year
CurrentYear == 2025

MonthNames ==
    <<<<<<"j", "a", "n">>, <<"j", "a", "n", "u", "a", "r", "y">>>>,
      <<<<"f", "e", "b">>, <<"f", "e", "b", "r", "u", "a", "r", "y">>>>,
      <<<<"m", "a", "r">>, <<"m", "a", "r", "c", "h">>>>,
      <<<<"a", "p", "r">>, <<"a", "p", "r", "i", "l">>>>,
      <<<<"m", "a", "y">>, <<"m", "a", "y">>>>,
      <<<<"j", "u", "n">>, <<"j", "u", "n", "e">>>>,
      <<<<"j", "u", "l">>, <<"j", "u", "l", "y">>>>,
      <<<<"a", "u", "g">>, <<"a", "u", "g", "u", "s", "t">>>>,
      <<<<"s", "e", "p">>, <<"s", "e", "p", "t", "e", "m", "b", "e", "r">>>>,
      <<<<"o", "c", "t">>, <<"o", "c", "t", "o", "b", "e", "r">>>>,
      <<<<"n", "o", "v">>, <<"n", "o", "v", "e", "m", "b", "e", "r">>>>,
      <<<<"d", "e", "c">>, <<"d", "e", "c", "e", "m", "b", "e", "r">>>>>>

\* the month a word names, 0 if none
MonthOf(word) ==
    LET w == LowerText(word)
        hits == {m \in 1..12 : \/ w = MonthNames[m][1]
                                \/ w = MonthNames[m][2]
                                \/ (m = 9 /\ w = <<"s", "e", "p", "t">>)}
    IN  IF hits = {} THEN 0 ELSE CHOOSE m \in hits : TRUE

\* the maximal runs of characters of txt outside seps, in order
Tokens(txt, seps) ==
    LET starts == {k \in 1..Len(txt) :
                      txt[k] \notin seps /\ (k = 1 \/ txt[k - 1] \in seps)}
        EndOf(k) == SetMin({j \in k..Len(txt) : j = Len(txt) \/ txt[j + 1] \in seps})
        Nth(i) == CHOOSE k \in starts : Cardinality({j \in starts : j < k}) = i - 1
    IN  [i \in 1..Cardinality(starts) |-> SubSeq(txt, Nth(i), EndOf(Nth(i)))]

IsNumber(tok) == \A k \in 1..Len(tok) : tok[k] \in Digits

DaysIn(y, m) ==
    IF m = 2 THEN (IF (y % 4 = 0 /\ y % 100 # 0) \/ y % 400 = 0 THEN 29 ELSE 28)
    ELSE IF m \in {4, 6, 9, 11} THEN 30 ELSE 31

\* dateutil's convertyear: a two-digit year within 50 years of the current one
ConvertYear(y, centurySpecified) ==
    IF y >= 100 \/ centurySpecified THEN y
    ELSE LET c == y + (CurrentYear \div 100) * 100
         IN  IF c >= CurrentYear + 50 THEN c - 100
             ELSE IF c < CurrentYear - 50 THEN c + 100
             ELSE c

\* dateutil's _ymd.resolve_ymd for three members; mi is the index of the
\* month name (0 if all three are numbers), yi the index of a member written
\* with more than two digits (0 if none)
ResolveYmd(v, mi, yi) ==
    CASE mi = 1 ->
            IF v[2] > 31 \/ yi = 2 THEN [y |-> v[2], m |-> v[1], d |-> v[3]]
            ELSE [y |-> v[3], m |-> v[1], d |-> v[2]]
      [] mi = 2 ->
            IF v[1] > 31 \/ yi = 1 THEN [y |-> v[1], m |-> v[2], d |-> v[3]]
            ELSE [y |-> v[3], m |-> v[2], d |-> v[1]]
      [] mi = 3 ->
            IF v[2] > 31 THEN [y |-> v[2], m |-> v[3], d |-> v[1]]
            ELSE [y |-> v[1], m |-> v[3], d |-> v[2]]
      [] OTHER ->
            IF v[1] > 31 \/ yi = 1
            THEN (IF v[3] <= 12 THEN [y |-> v[1], m |-> v[3], d |-> v[2]]
                  ELSE [y |-> v[1], m |-> v[2], d |-> v[3]])
            ELSE IF v[1] > 12 \/ v[2] <= 12 THEN [y |-> v[3], m |-> v[2], d |-> v[1]]
            ELSE [y |-> v[3], m |-> v[1], d |-> v[2]]

Pad(n, width) ==
    [k \in 1..width |->
        DigitChar((n \div (IF width - k = 3 THEN 1000 ELSE IF width - k = 2 THEN 100
                           ELSE IF width - k = 1 THEN 10 ELSE 1)) % 10)]

\* strftime('%Y-%m-%d')
FormatDate(y, m, d) == Pad(y, 4) \o <<"-">> \o Pad(m, 2) \o <<"-">> \o Pad(d, 2)

\* date_parser.parse(...).strftime(...), None for a ValueError
ParseDate(s) ==
    LET toks == Tokens(s, SpaceChars \cup {"/", "-", ","})
        known == \A i \in 1..Len(toks) :
                    \/ IsNumber(toks[i]) /\ Len(toks[i]) <= 4
                    \/ MonthOf(toks[i]) # 0
        months == {i \in 1..Len(toks) : ~IsNumber(toks[i])}
        long == {i \in 1..Len(toks) : IsNumber(toks[i]) /\ Len(toks[i]) > 2}
        mi == IF months = {} THEN 0 ELSE CHOOSE i \in months : TRUE
        yi == IF long = {} THEN 0 ELSE CHOOSE i \in long : TRUE
        v == [i \in 1..Len(toks) |->
                IF IsNumber(toks[i]) THEN ToInt(toks[i]) ELSE MonthOf(toks[i])]
        ymd == ResolveYmd(v, mi, yi)
        year == ConvertYear(ymd.y, yi # 0)
    IN  IF Len(toks) # 3 \/ ~known \/ Cardinality(months) > 1 \/ Cardinality(long) > 1
        THEN None
        ELSE IF year < 1 \/ year > 9999 \/ ymd.m < 1 \/ ymd.m > 12
                \/ ymd.d < 1 \/ ymd.d > DaysIn(year, ymd.m)
        THEN None
        ELSE FormatDate(year, ymd.m, ymd.d)

\* normalize_date on None or a string
normalize_date(date_str) ==
    IF date_str = None THEN None
    ELSE LET stripped == Strip(date_str)
         IN  IF stripped = <<>> THEN None ELSE ParseDate(stripped)

(***************************************************************************)
(* The search patterns of the sources.                                     *)
(***************************************************************************)
\* words separated by \s+
RECURSIVE Phrase(_)
Phrase(ws) ==
    IF Len(ws) = 1 THEN <<Lit(ws[1])>>
    ELSE <<Lit(ws[1]), Plus(Ws)>> \o Phrase(Tail(ws))

\* [:\s]+
ColonOrSpace == Plus(Set({":"} \cup SpaceChars))

\* \s*[-–]\s*
Dash == Cat(<<Star(Ws), Set({"-", "endash"}), Star(Ws)>>)

\* a variant of AmountGroup that takes a minus sign: C12 tells the two apart
AmountGroupSigned ==
    Grp(1, Cat(<<Opt(Set({"rupee", "$"})), Opt(Set({"-"})),
                 Plus(Set(Digits \cup {",", "."} \cup SpaceChars))>>))

\* ([₹$]?[\d,\.\s]+)
AmountGroup == Grp(1, Cat(<<Opt(Set({"rupee", "$"})), Plus(Set(Digits \cup {",", "."} \cup SpaceChars))>>))

\* (?:XXXX|[*•]{4}|[\d]{4})
MaskGroup == Alt(<<Lit(W.XXXX), Times(Set({"*", "bullet"}), 4), Times(Dg, 4)>>)

\* \s*(?:[-*\s]*)\s*
MaskSeparator == Cat(<<Star(Ws), Star(Set({"-", "*"} \cup SpaceChars)), Star(Ws)>>)

\* masked_pattern of extract_card_last4, and of parse_hdfc
MaskedPattern ==
    Cat(<<MaskGroup, MaskSeparator, MaskGroup, MaskSeparator, MaskGroup, MaskSeparator,
          Grp(1, Times(Dg, 4))>>)

\* rf'{keyword}[:\s]+(?:.*?)?(\d{{4}})(?!\d)'
KeywordPattern(keyword) ==
    Cat(<<Lit(keyword), ColonOrSpace, Opt(LazyStar(AnyChar)), Grp(1, Times(Dg, 4)), NotAhead(Dg)>>)

\* r'(\d{4})(?!\d)'
FourDigitPattern == Cat(<<Grp(1, Times(Dg, 4)), NotAhead(Dg)>>)

(***************************************************************************)
(* extract_card_last4                                                      *)
(***************************************************************************)
DefaultKeywords == <<W.Card, W.Account, W.XXXX, W.Ending, W.Number>>

\* the corroborating terms looked for around a keyword match
ContextTerms == {LowerText(W.Card), LowerText(W.Account), LowerText(W.Number),
                 LowerText(W.Ending), LowerText(W.XXXX)}

\* the terms that make a line a candidate of the line scan
LineTerms == {LowerText(W.Account), LowerText(W.Card), LowerText(W.Number)}

\* characters of context kept before and after a keyword match
ContextWindow == 50

\* a variant of MaskedStep without the year check: C4 tells the two apart
MaskedStepUnchecked(text) ==
    LET Accept(m) == IF m.found THEN Group(m, text, 1) ELSE None
    IN  Accept(Search(MaskedPattern, text))

\* step 1: the masked-number pattern
MaskedStep(text) ==
    LET Accept(m) == IF m.found /\ ~IsYear(Group(m, text, 1)) THEN Group(m, text, 1) ELSE None
    IN  Accept(Search(MaskedPattern, text))

\* is the match m of a keyword pattern accepted
KeywordAccepts(text, m) ==
    LET from == IF m.start - ContextWindow < 1 THEN 1 ELSE m.start - ContextWindow
        to == IF m.end + ContextWindow > Len(text) + 1 THEN Len(text) + 1
              ELSE m.end + ContextWindow
        context == LowerText(Slice(text, from, to))
    IN  /\ ~IsYear(Group(m, text, 1))
        /\ \E kw \in ContextTerms : Contains(context, kw)

\* a variant of KeywordCandidate that takes the accepted match nearest to the
\* start of the text: C20 tells the two apart
KeywordCandidateFromStart(text, keyword) ==
    LET First(matches, ok) == IF ok = {} THEN None ELSE Group(matches[SetMin(ok)], text, 1)
        Accepted(matches) ==
            First(matches, {k \in 1..Len(matches) : KeywordAccepts(text, matches[k])})
    IN  Accepted(FindIter(KeywordPattern(keyword), text))

\* step 2 for one keyword: the accepted match nearest to the end of the text
KeywordCandidate(text, keyword) ==
    LET Last(matches, ok) == IF ok = {} THEN None ELSE Group(matches[SetMax(ok)], text, 1)
        Accepted(matches) ==
            Last(matches, {k \in 1..Len(matches) : KeywordAccepts(text, matches[k])})
    IN  Accepted(FindIter(KeywordPattern(keyword), text))

\* step 2: the keywords in the order given
KeywordStep(text, keywords) ==
    LET First(found, hits) == IF hits = {} THEN None ELSE found[SetMin(hits)]
        FirstOf(found) == First(found, {k \in 1..Len(found) : found[k] # None})
    IN  FirstOf([k \in 1..Len(keywords) |-> KeywordCandidate(text, keywords[k])])

\* step 3 for one line
LineCandidate(line) ==
    LET Accept(m) ==
            IF /\ \E kw \in LineTerms : Contains(LowerText(line), kw)
               /\ m.found
               /\ ~IsYear(Group(m, line, 1))
            THEN Group(m, line, 1) ELSE None
    IN  Accept(Search(FourDigitPattern, line))

\* step 3: the lines from the first to the last
LineStep(text) ==
    LET First(found, hits) == IF hits = {} THEN None ELSE found[SetMin(hits)]
        FirstOf(found) == First(found, {k \in 1..Len(found) : found[k] # None})
        Scan(lines) == FirstOf([k \in 1..Len(lines) |-> LineCandidate(lines[k])])
    IN  Scan(SplitLines(text))

\* keywords is NoKeywords when the caller passes no list
NoKeywords == <<None>>

\* a variant of extract_card_last4 that takes the keyword step before the
\* masked-number step: C19 tells the two apart
extract_card_last4_keywords_first(text, context_keywords) ==
    LET keywords == IF context_keywords = NoKeywords THEN DefaultKeywords ELSE context_keywords
        OrElse(found, next) == IF found # None THEN found ELSE next
    IN  IF text = None \/ text = <<>> THEN None
        ELSE OrElse(KeywordStep(text, keywords), OrElse(MaskedStep(text), LineStep(text)))

extract_card_last4(text, context_keywords) ==
    LET keywords == IF context_keywords = NoKeywords THEN DefaultKeywords ELSE context_keywords
        \* the steps in their order: a step is taken when those before it return None
        OrElse(found, next) == IF found # None THEN found ELSE next
    IN  IF text = None \/ text = <<>> THEN None
        ELSE OrElse(MaskedStep(text), OrElse(KeywordStep(text, keywords), LineStep(text)))

(***************************************************************************)
(* The field searches of the five extractors.                              *)
(***************************************************************************)
\* the classes of the captured groups: [\w\d\s/], [\w\d\s/\-], [\d/\-\s]
Class ==
  [
    Word |-> WordChars \cup SpaceChars \cup {"/"},
    WordDash |-> WordChars \cup SpaceChars \cup {"/", "-"},
    DigitDash |-> Digits \cup SpaceChars \cup {"/", "-"}
  ]

\* label[:\s]+(class+)\s*[-–]\s*(class+)
PeriodPattern(label, class) ==
    Cat(<<label, ColonOrSpace, Grp(1, Plus(Set(class))), Dash, Grp(2, Plus(Set(class)))>>)

\* label[:\s]+(class+)
DuePattern(label, class) == Cat(<<label, ColonOrSpace, Grp(1, Plus(Set(class)))>>)

\* label[:\s]+([₹$]?[\d,\.\s]+)
AmountPattern(label) == Cat(<<label, ColonOrSpace, AmountGroup>>)

NoPeriod == <<None, None>>

\* `if not last4`
Falsy(v) == v = None \/ v = <<>>

\* the match of the first of the patterns that has one: a pattern after the
\* first is searched when those before it have no match
RECURSIVE FirstMatch(_, _)
FirstMatch(patterns, text) ==
    LET OrNext(m) == IF m.found \/ Len(patterns) = 1 THEN m ELSE FirstMatch(Tail(patterns), text)
    IN  OrNext(Search(Head(patterns), text))

\* a variant of PeriodField that takes the start from the match of the first
\* pattern that has one and the end from the match of the last: C22 tells
\* the two apart
PeriodFieldEndsApart(patterns, text) ==
    LET End(m, n) == IF m.found THEN normalize_date(Strip(Group(m, text, n))) ELSE None
        Ends(first, last) == <<End(first, 1), End(IF last.found THEN last ELSE first, 2)>>
    IN  Ends(FirstMatch(patterns, text), Search(patterns[Len(patterns)], text))

\* both ends normalized from the two groups of one match
PeriodField(patterns, text) ==
    LET End(m, n) == normalize_date(Strip(Group(m, text, n)))
        Ends(m) == IF m.found THEN <<End(m, 1), End(m, 2)>> ELSE NoPeriod
    IN  Ends(FirstMatch(patterns, text))

DueField(pattern, text) ==
    LET Date(m) == IF m.found THEN normalize_date(Strip(Group(m, text, 1))) ELSE None
    IN  Date(Search(pattern, text))

\* a variant of AmountField that goes on to the next pattern when the match of
\* one has no readable amount: C21 tells the two apart
RECURSIVE AmountFieldFirstReadable(_, _)
AmountFieldFirstReadable(patterns, text) ==
    LET Amount(m) == IF m.found THEN normalize_currency(StrArg(Group(m, text, 1))) ELSE None
        OrNext(amount) ==
            IF amount # None \/ Len(patterns) = 1 THEN amount
            ELSE AmountFieldFirstReadable(Tail(patterns), text)
    IN  OrNext(Amount(Search(Head(patterns), text)))

AmountField(patterns, text) ==
    LET Amount(m) == IF m.found THEN normalize_currency(StrArg(Group(m, text, 1))) ELSE None
    IN  Amount(FirstMatch(patterns, text))

\* an extractor's own suffix pattern, with the year check or without it
OwnLast4(pattern, text, checked) ==
    LET Accept(m) ==
            IF m.found /\ ~(checked /\ IsYear(Group(m, text, 1))) THEN Group(m, text, 1)
            ELSE None
    IN  Accept(Search(pattern, text))

\* the own pattern first, the shared locator when it finds nothing
OwnThenShared(pattern, keywords, text) ==
    LET OrShared(own) == IF ~Falsy(own) THEN own ELSE extract_card_last4(text, keywords)
    IN  OrShared(OwnLast4(pattern, text, TRUE))

\* the shared locator first, the own pattern when it finds nothing
SharedThenOwn(keywords, pattern, text, checked) ==
    LET OrOwn(last4, own) ==
            IF ~Falsy(last4) THEN last4
            ELSE IF own # None THEN own
            ELSE last4
    IN  OrOwn(extract_card_last4(text, keywords), OwnLast4(pattern, text, checked))

\* the labels the field patterns begin with
L ==
  [
    PaymentDueDate |-> Cat(Phrase(<<W.Payment, W.Due, W.Date>>)),
    DueDate |-> Cat(Phrase(<<W.Due, W.Date>>)),
    MinimumAmountDue |-> Cat(Phrase(<<W.Minimum, W.Amount, W.Due>>)),
    MinimumDue |-> Cat(Phrase(<<W.Minimum, W.Due>>)),
    MinimumPayment |-> Cat(Phrase(<<W.Minimum, W.Payment>>)),
    NewBalance |-> Cat(Phrase(<<W.New, W.Balance>>)),
    TotalDue |-> Cat(Phrase(<<W.Total, W.Due>>)),
    TotalAmountDue |-> Cat(Phrase(<<W.Total, W.Amount, W.Due>>)),
    AmountDue |-> Cat(Phrase(<<W.Amount, W.Due>>)),
    StatementPeriod |-> Cat(Phrase(<<W.Statement, W.Period>>)),
    BillingCycle |-> Cat(Phrase(<<W.Billing, W.Cycle>>)),
    BillingPeriod |-> Cat(Phrase(<<W.Billing, W.Period>>)),
    \* Opening[/\s]+Closing\s+Date
    OpeningClosingDate |->
        Cat(<<Lit(W.Opening), Plus(Set({"/"} \cup SpaceChars)), Lit(W.Closing), Plus(Ws),
              Lit(W.Date)>>)
  ]

\* a variant of Fields in which the balance is searched first: C18 tells the
\* two apart
FieldsBalanceFirst == <<"newbal", "last4", "period", "due", "mindue">>

\* the fields an extractor searches, in the order of its searches
Fields == <<"last4", "period", "due", "mindue", "newbal">>

(***************************************************************************)
(* parse_onecard.  Each extractor is given as the value of one of its      *)
(* fields on the acquired text.                                            *)
(***************************************************************************)
\* (\d{1,2}\s+\w+\s+\d{4})
DayMonthYear(n) ==
    Grp(n, Cat(<<Rep(Dg, 1, 2, TRUE), Plus(Ws), Plus(Set(WordChars)), Plus(Ws), Times(Dg, 4)>>))

\* (\d{1,2}[/-]\d{1,2}[/-]\d{2,4})
NumericDate(n) ==
    Grp(n, Cat(<<Rep(Dg, 1, 2, TRUE), Set({"/", "-"}), Rep(Dg, 1, 2, TRUE), Set({"/", "-"}),
                 Rep(Dg, 2, 4, TRUE)>>))

\* extract_dates: the two ends of one match of the first pattern that matches
extract_dates(text) ==
    LET Ends(m) ==
            IF m.found THEN <<Strip(Group(m, text, 1)), Strip(Group(m, text, 2))>> ELSE NoPeriod
    IN  Ends(FirstMatch(<<Cat(<<DayMonthYear(1), Dash, DayMonthYear(2)>>),
                          Cat(<<NumericDate(1), Dash, NumericDate(2)>>)>>, text))

\* (?:OneCard|Card)\s*(?:Number|No\.?)[:\s]+.*?(\d{4})\b
OneCardFallbackPattern ==
    Cat(<<Alt(<<Lit(W.OneCard), Lit(W.Card)>>), Star(Ws),
          Alt(<<Lit(W.Number), Cat(<<Lit(W.No), Opt(Set({"."}))>>)>>),
          ColonOrSpace, LazyStar(AnyChar), Grp(1, Times(Dg, 4)), WordBoundary>>)

parse_onecard(text, field) ==
    CASE field = "last4" ->
            SharedThenOwn(<<W.Card, W.Account, W.OneCard>>, OneCardFallbackPattern, text, FALSE)
      [] field = "period" ->
            LET End(date) == IF Falsy(date) THEN None ELSE normalize_date(date)
                Ends(dates) == <<End(dates[1]), End(dates[2])>>
            IN  Ends(extract_dates(text))
      [] field = "due" -> DueField(DuePattern(L.PaymentDueDate, Class.WordDash), text)
      [] field = "mindue" -> AmountField(<<AmountPattern(L.MinimumAmountDue)>>, text)
      [] field = "newbal" ->
            AmountField(<<AmountPattern(Alt(<<L.NewBalance, L.TotalAmountDue>>))>>, text)

(***************************************************************************)
(* parse_buildingblocks                                                    *)
(***************************************************************************)
\* Account\s+Number[:\s]+(?:.*?[X*\s-]+)?(\d{4})\b
AccountNumberPattern ==
    Cat(Phrase(<<W.Account, W.Number>>) \o
        <<ColonOrSpace,
          Opt(Cat(<<LazyStar(AnyChar), Plus(Set({"X", "*", "-"} \cup SpaceChars))>>)),
          Grp(1, Times(Dg, 4)), WordBoundary>>)

parse_buildingblocks(text, field) ==
    CASE field = "last4" ->
            SharedThenOwn(<<W.Account, W.Card, W.Number>>, AccountNumberPattern, text, FALSE)
      [] field = "period" ->
            PeriodField(<<PeriodPattern(L.OpeningClosingDate, Class.DigitDash),
                          PeriodPattern(Alt(<<L.BillingPeriod, L.StatementPeriod>>),
                                        Class.DigitDash)>>, text)
      [] field = "due" -> DueField(DuePattern(L.PaymentDueDate, Class.WordDash), text)
      [] field = "mindue" -> AmountField(<<AmountPattern(L.MinimumPayment)>>, text)
      [] field = "newbal" ->
            AmountField(<<AmountPattern(L.NewBalance), AmountPattern(L.TotalAmountDue)>>, text)

(***************************************************************************)
(* parse_hdfc                                                              *)
(***************************************************************************)
parse_hdfc(text, field) ==
    CASE field = "last4" ->
            OwnThenShared(MaskedPattern, <<W.Card, W.Account, W.HDFC, W.XXXX>>, text)
      [] field = "period" ->
            PeriodField(<<PeriodPattern(L.StatementPeriod, Class.Word),
                          PeriodPattern(Alt(<<L.BillingPeriod, L.BillingCycle>>), Class.Word)>>,
                        text)
      [] field = "due" -> DueField(DuePattern(L.PaymentDueDate, Class.WordDash), text)
      [] field = "mindue" ->
            AmountField(<<AmountPattern(Alt(<<L.MinimumAmountDue, L.MinimumDue>>))>>, text)
      [] field = "newbal" ->
            AmountField(<<AmountPattern(Alt(<<L.TotalAmountDue, L.NewBalance>>))>>, text)

(***************************************************************************)
(* parse_amex                                                              *)
(***************************************************************************)
\* (?:Card\s+Ending\s+(?:in\s+)?|Card\s+No\.?\s*)(\d{4})\b
CardEndingPattern ==
    Cat(<<Alt(<<Cat(Phrase(<<W.Card, W.Ending>>) \o <<Plus(Ws), Opt(Cat(<<Lit(W.in), Plus(Ws)>>))>>),
                Cat(Phrase(<<W.Card, W.No>>) \o <<Opt(Set({"."})), Star(Ws)>>)>>),
          Grp(1, Times(Dg, 4)), WordBoundary>>)

parse_amex(text, field) ==
    CASE field = "last4" ->
            OwnThenShared(CardEndingPattern, <<W.Card, W.AMEX, W.AmericanExpress, W.Ending>>, text)
      [] field = "period" ->
            PeriodField(<<PeriodPattern(Alt(<<L.StatementPeriod, L.BillingCycle>>), Class.Word)>>,
                        text)
      [] field = "due" ->
            DueField(DuePattern(Alt(<<L.PaymentDueDate, L.DueDate>>), Class.WordDash), text)
      [] field = "mindue" ->
            AmountField(<<AmountPattern(Alt(<<L.MinimumAmountDue, L.MinimumDue>>))>>, text)
      [] field = "newbal" ->
            AmountField(<<AmountPattern(Alt(<<L.NewBalance, L.TotalDue>>)),
                          AmountPattern(L.TotalAmountDue)>>, text)

(***************************************************************************)
(* parse_firstcitizens                                                     *)
(***************************************************************************)
parse_firstcitizens(text, field) ==
    CASE field = "last4" ->
            SharedThenOwn(<<W.Account, W.Card, W.Number, W.FirstCitizens>>, AccountNumberPattern,
                          text, TRUE)
      [] field = "period" ->
            PeriodField(<<PeriodPattern(Alt(<<L.BillingCycle, L.StatementPeriod>>), Class.Word)>>,
                        text)
      [] field = "due" ->
            DueField(DuePattern(Alt(<<L.PaymentDueDate, L.DueDate>>), Class.WordDash), text)
      [] field = "mindue" ->
            AmountField(<<AmountPattern(Alt(<<L.MinimumPayment, L.MinimumDue>>))>>, text)
      [] field = "newbal" ->
            AmountField(<<AmountPattern(Alt(<<L.NewBalance, L.TotalAmountDue, L.AmountDue>>))>>,
                        text)

(***************************************************************************)
(* calculate_confidence.  A confidence is held in hundredths: 22 is 0.22.  *)
(***************************************************************************)
required_fields == <<"card_last4", "billing_period", "payment_due_date", "new_balance">>
optional_fields == <<"minimum_due">>

\* data.get(field)
Get(data, field) == IF field \in DOMAIN data THEN data[field] ELSE None

\* a variant of Round2 that keeps three decimals: C3 tells the two apart
Round2Thousandths(num, den) == (1000 * num) \div den

\* round(num / den, 2) in hundredths, ties to the even neighbour
Round2(num, den) ==
    LET q == (100 * num) \div den
        r == (100 * num) % den
    IN  IF 2 * r < den THEN q
        ELSE IF 2 * r > den THEN q + 1
        ELSE IF q % 2 = 0 THEN q ELSE q + 1

\* a variant of RequiredPoints that counts a period with one end only: C1
\* tells the two apart
RequiredPointsEitherEnd(data, field) ==
    IF field = "billing_period"
    THEN IF /\ field \in DOMAIN data
            /\ (~Falsy(Get(data[field], "start")) \/ ~Falsy(Get(data[field], "end")))
         THEN 2 ELSE 0
    ELSE IF Get(data, field) # None THEN 2 ELSE 0

\* the points of one required field, in half points
RequiredPoints(data, field) ==
    IF field = "billing_period"
    THEN IF /\ field \in DOMAIN data
            /\ ~Falsy(Get(data[field], "start"))
            /\ ~Falsy(Get(data[field], "end"))
         THEN 2 ELSE 0
    ELSE IF Get(data, field) # None THEN 2 ELSE 0

RECURSIVE SumRequired(_, _)
SumRequired(data, k) ==
    IF k > Len(required_fields) THEN 0
    ELSE RequiredPoints(data, required_fields[k]) + SumRequired(data, k + 1)

\* a variant of calculate_confidence without the optional field: C2 tells the
\* two apart
calculate_confidence_required_only(data) ==
    LET max_score == 2 * Len(required_fields)
        score == SumRequired(data, 1)
    IN  IF max_score > 0 THEN Round2(score, max_score) ELSE 0

calculate_confidence(data) ==
    LET max_score == 2 * Len(required_fields) + Len(optional_fields)
        score == SumRequired(data, 1) + (IF Get(data, "minimum_due") # None THEN 1 ELSE 0)
    IN  IF max_score > 0 THEN Round2(score, max_score) ELSE 0

(***************************************************************************)
(* Text acquisition.  A document is a file that exists or not and its      *)
(* pages; a page has a text layer (a text, None, or Raise when reading it  *)
(* fails) and an OCR outcome (a text, or Raise when rasterizing or         *)
(* recognizing it fails).                                                  *)
(***************************************************************************)
Raise == <<"raise">>

\* the structured text must be longer than this, trimmed, to be returned
MinStructuredLength == 50

\* "\n".join(page.extract_text() or "" for page in pdf.pages), Raise on failure
StructuredText(doc) ==
    IF ~doc.exists \/ \E k \in 1..Len(doc.pages) : doc.pages[k].layer = Raise THEN Raise
    ELSE JoinLines([k \in 1..Len(doc.pages) |->
                      IF Falsy(doc.pages[k].layer) THEN <<>> ELSE doc.pages[k].layer])

\* the OCR fallback: the pages that fail are skipped
OcrText(doc) ==
    IF ~doc.exists THEN <<>>
    ELSE LET ok == SelectSeq(doc.pages, LAMBDA p : p.ocr # Raise)
         IN  JoinLines([k \in 1..Len(ok) |-> ok[k].ocr])

\* a variant of extract_text_with_ocr_fallback that keeps the structured text
\* when OCR gives nothing: C24 tells the two apart
extract_text_with_ocr_fallback_or_layer(doc) ==
    LET text == StructuredText(doc)
        OrLayer(ocr_text) == IF ocr_text = <<>> /\ text # Raise THEN text ELSE ocr_text
    IN  IF text # Raise /\ text # <<>> /\ Len(Strip(text)) > MinStructuredLength THEN text
        ELSE OrLayer(OcrText(doc))

extract_text_with_ocr_fallback(doc) ==
    LET text == StructuredText(doc)
    IN  IF text # Raise /\ text # <<>> /\ Len(Strip(text)) > MinStructuredLength THEN text
        ELSE OcrText(doc)

(***************************************************************************)
(* The extractors' records and the dispatcher.                             *)
(***************************************************************************)
SupportedIssuers == {"onecard", "buildingblocks", "hdfc", "amex", "firstcitizens"}

\* a variant of IssuerLabel in which parse_buildingblocks carries the label
\* of the extractor it was copied from: C14 tells the two apart
IssuerLabelCopied(id) ==
    CASE id = "onecard" -> "OneCard"
      [] id = "buildingblocks" -> "HDFC"
      [] id = "hdfc" -> "HDFC"
      [] id = "amex" -> "AMEX"
      [] id = "firstcitizens" -> "FirstCitizens"

\* the label each extractor writes into its records
IssuerLabel(id) ==
    CASE id = "onecard" -> "OneCard"
      [] id = "buildingblocks" -> "BuildingBlocks"
      [] id = "hdfc" -> "HDFC"
      [] id = "amex" -> "AMEX"
      [] id = "firstcitizens" -> "FirstCitizens"

\* the trimmed text must have at least this many characters to be searched
MinTextLength == 10

Record(label, last4, period, due, mindue, newbal, conf) ==
    [issuer |-> label,
     card_last4 |-> last4,
     billing_period |-> [start |-> period[1], end |-> period[2]],
     payment_due_date |-> due,
     minimum_due |-> mindue,
     new_balance |-> newbal,
     confidence |-> conf]

\* the record of a short text and of a caught exception
EmptyRecord(label) == Record(label, None, NoPeriod, None, None, None, 0)

\* {"error": "issuer not supported"}
ErrorRecord == [error |-> "issuer not supported"]

\* the value of one field as the extractor of issuer id finds it
Extract(id, field, text) ==
    CASE id = "onecard" -> parse_onecard(text, field)
      [] id = "buildingblocks" -> parse_buildingblocks(text, field)
      [] id = "hdfc" -> parse_hdfc(text, field)
      [] id = "amex" -> parse_amex(text, field)
      [] id = "firstcitizens" -> parse_firstcitizens(text, field)

(***************************************************************************)
(* The documents of the model.                                             *)
(***************************************************************************)
T ==
  [
    \* a masked card number and nothing else: Card Number: XXXX XXXX XXXX 1234
    Masked |-> <<"C", "a", "r", "d", " ", "N", "u", "m", "b", "e", "r", ":", " ", "X", "X", "X", "X", " ", "X", "X", "X", "X", " ", "X", "X", "X", "X", " ", "1", "2", "3", "4">>,
    \* a card number that reads as a year: Card Number: 2025
    CardYear |-> <<"C", "a", "r", "d", " ", "N", "u", "m", "b", "e", "r", ":", " ", "2", "0", "2", "5">>,
    \* an account number that reads as a year: Account Number: 2025
    AccountYear |-> <<"A", "c", "c", "o", "u", "n", "t", " ", "N", "u", "m", "b", "e", "r", ":", " ", "2", "0", "2", "5">>,
    \* a minimum due and nothing else: Minimum Amount Due: 5
    MinDue |-> <<"M", "i", "n", "i", "m", "u", "m", " ", "A", "m", "o", "u", "n", "t", " ", "D", "u", "e", ":", " ", "5">>,
    \* 9 characters once trimmed:   Card 1234 
    Short |-> <<" ", " ", "C", "a", "r", "d", " ", "1", "2", "3", "4", " ">>,
    \* exactly 10 characters: Card: 1234
    Ten |-> <<"C", "a", "r", "d", ":", " ", "1", "2", "3", "4">>,
    \* a period whose end is no date: Statement Period: 01/01/2025 - 31/02/2025.
    Partial |-> <<"S", "t", "a", "t", "e", "m", "e", "n", "t", " ", "P", "e", "r", "i", "o", "d", ":", " ", "0", "1", "/", "0", "1", "/", "2", "0", "2", "5", " ", "-", " ", "3", "1", "/", "0", "2", "/", "2", "0", "2", "5", ".">>,
    \* a statement with the five fields: Card No 1234\nBilling Cycle: 01/01/25 - 31/01/25.\nDue Date: 15/02/25.\nMinimum Due: 25\nTotal Due: 1,234.56
    Statement |-> <<"C", "a", "r", "d", " ", "N", "o", " ", "1", "2", "3", "4", "\n", "B", "i", "l", "l", "i", "n", "g", " ", "C", "y", "c", "l", "e", ":", " ", "0", "1", "/", "0", "1", "/", "2", "5", " ", "-", " ", "3", "1", "/", "0", "1", "/", "2", "5", ".", "\n", "D", "u", "e", " ", "D", "a", "t", "e", ":", " ", "1", "5", "/", "0", "2", "/", "2", "5", ".", "\n", "M", "i", "n", "i", "m", "u", "m", " ", "D", "u", "e", ":", " ", "2", "5", "\n", "T", "o", "t", "a", "l", " ", "D", "u", "e", ":", " ", "1", ",", "2", "3", "4", ".", "5", "6">>,
    \* a line without any field: Thank you.
    Filler |-> <<"T", "h", "a", "n", "k", " ", "y", "o", "u", ".">>,
    \* a credit balance: New Balance: -50.00
    Credit |-> <<"N", "e", "w", " ", "B", "a", "l", "a", "n", "c", "e", ":", " ", "-", "5", "0", ".", "0", "0">>
  ]

\* a page with a text layer that OCR reads alike, and a scanned page OCR fails on
Pages == {[layer |-> t, ocr |-> t] : t \in {T[k] : k \in DOMAIN T}} \cup {[layer |-> None, ocr |-> Raise]}

\* the most pages a document has
MaxPages == 2

MissingFile == [exists |-> FALSE, pages |-> <<>>]

Documents ==
    {MissingFile} \cup
    {[exists |-> TRUE, pages |-> ps] : ps \in UNION {[1..n -> Pages] : n \in 0..MaxPages}}

\* the issuer identifiers parse_pdf is called with
IssuerArgs == SupportedIssuers \cup {"unknown", "HDFC", "visa"}

(***************************************************************************)
(* One call of parse_pdf, step by step.                                    *)
(***************************************************************************)
VARIABLES
    pc,         \* where the call stands
    doc,        \* the document at the path
    issuer,     \* the issuer identifier passed to parse_pdf
    extractor,  \* the extractor parse_pdf runs, "none" if none
    text,       \* the acquired text, None before acquisition
    found,      \* the extractor's locals: the fields found so far
    result,     \* the mapping under construction, returned when pc = "returned"
    acquired,   \* the number of text acquisitions of the call
    searches,   \* the number of field searches of the call
    faulted,    \* has the extractor caught an exception
    call,       \* a direct call of one shared function, and its value
    ret

vars == <<pc, doc, issuer, extractor, text, found, result, acquired, searches, faulted, call, ret>>

pipeline == <<pc, doc, issuer, extractor, text, found, result, acquired, searches, faulted>>

NoResult == [none |-> TRUE]
NoCall == [fn |-> "none"]
NoReturn == [done |-> FALSE]
NothingFound ==
    [last4 |-> None, period |-> NoPeriod, due |-> None, mindue |-> None, newbal |-> None]

\* the steps of the field searches, and all the steps inside the try block
SearchSteps == {Fields[k] : k \in 1..Len(Fields)}
TrySteps == {"acquire", "check", "build", "score"} \cup SearchSteps

Idle ==
    /\ pc = "idle"
    /\ doc = MissingFile
    /\ issuer = "unknown"
    /\ extractor = "none"
    /\ text = None
    /\ found = NothingFound
    /\ result = NoResult
    /\ acquired = 0
    /\ searches = 0
    /\ faulted = FALSE

Init == Idle /\ call = NoCall /\ ret = NoReturn

\* a variant of ParsePdf that hands an unsupported identifier to parse_onecard:
\* C6 tells the two apart
ParsePdfAnyIssuer(d, i) ==
    /\ pc = "idle"
    /\ doc' = d
    /\ issuer' = i
    /\ extractor' = IF i \in SupportedIssuers THEN i ELSE "onecard"
    /\ pc' = "acquire"
    /\ result' = NoResult
    /\ UNCHANGED <<text, found, acquired, searches, faulted, call, ret>>

\* parse_pdf(path, issuer): the dispatch
ParsePdf(d, i) ==
    /\ pc = "idle"
    /\ doc' = d
    /\ issuer' = i
    /\ IF i \in SupportedIssuers
       THEN /\ extractor' = i
            /\ pc' = "acquire"
            /\ result' = NoResult
       ELSE /\ extractor' = "none"
            /\ pc' = "returned"
            /\ result' = ErrorRecord
    /\ UNCHANGED <<text, found, acquired, searches, faulted, call, ret>>

\* text = extract_text_with_ocr_fallback(path)
AcquireText ==
    /\ pc = "acquire"
    /\ text' = extract_text_with_ocr_fallback(doc)
    /\ acquired' = acquired + 1
    /\ pc' = "check"
    /\ UNCHANGED <<doc, issuer, extractor, found, result, searches, faulted, call, ret>>

\* a variant of TooShort that does not trim: C7 tells the two apart
TooShortUntrimmed(t) == Falsy(t) \/ Len(t) < MinTextLength

\* if not text or len(text.strip()) < 10: return the empty record
TooShort(t) == Falsy(t) \/ Len(Strip(t)) < MinTextLength

CheckText ==
    /\ pc = "check"
    /\ IF TooShort(text)
       THEN /\ result' = EmptyRecord(IssuerLabel(extractor))
            /\ text' = None
            /\ pc' = "returned"
       ELSE /\ pc' = Fields[1]
            /\ UNCHANGED <<result, text>>
    /\ UNCHANGED <<doc, issuer, extractor, found, acquired, searches, faulted, call, ret>>

\* the search of one field: card suffix, billing period, due date, minimum
\* due and new balance, one after the other
ExtractField ==
    /\ pc \in SearchSteps
    /\ found' = [found EXCEPT ![pc] = Extract(extractor, pc, text)]
    /\ searches' = searches + 1
    /\ pc' = IF pc = Fields[Len(Fields)] THEN "build"
             ELSE Fields[1 + CHOOSE k \in 1..Len(Fields) : Fields[k] = pc]
    /\ UNCHANGED <<doc, issuer, extractor, text, result, acquired, faulted, call, ret>>

\* result = {...with "confidence": 0.0}
BuildResult ==
    /\ pc = "build"
    /\ result' = Record(IssuerLabel(extractor), found.last4, found.period, found.due,
                        found.mindue, found.newbal, 0)
    /\ pc' = "score"
    /\ UNCHANGED <<doc, issuer, extractor, text, found, acquired, searches, faulted, call, ret>>

\* a variant of Score that returns the placeholder confidence: C9 tells the
\* two apart
ScoreKeepsPlaceholder ==
    /\ pc = "score"
    /\ pc' = "returned"
    /\ text' = None
    /\ found' = NothingFound
    /\ UNCHANGED <<doc, issuer, extractor, result, acquired, searches, faulted, call, ret>>

\* result["confidence"] = calculate_confidence(result); return result
Score ==
    /\ pc = "score"
    /\ result' = [result EXCEPT !.confidence = calculate_confidence(result)]
    /\ pc' = "returned"
    /\ text' = None
    /\ found' = NothingFound
    /\ UNCHANGED <<doc, issuer, extractor, acquired, searches, faulted, call, ret>>

\* a variant of Fault that lets the exception out of the extractor: C8 tells
\* the two apart
FaultPropagates ==
    /\ pc \in TrySteps
    /\ pc' = "raised"
    /\ faulted' = TRUE
    /\ text' = None
    /\ found' = NothingFound
    /\ UNCHANGED <<doc, issuer, extractor, result, acquired, searches, call, ret>>

\* except Exception: an exception raised anywhere in the try block ends the
\* call with the empty record
Fault ==
    /\ pc \in TrySteps
    /\ result' = EmptyRecord(IssuerLabel(extractor))
    /\ faulted' = TRUE
    /\ pc' = "returned"
    /\ text' = None
    /\ found' = NothingFound
    /\ UNCHANGED <<doc, issuer, extractor, acquired, searches, call, ret>>

\* the caller takes the mapping; the next call starts afresh
Finish ==
    /\ pc = "returned"
    /\ pc' = "idle"
    /\ doc' = MissingFile
    /\ issuer' = "unknown"
    /\ extractor' = "none"
    /\ result' = NoResult
    /\ acquired' = 0
    /\ searches' = 0
    /\ faulted' = FALSE
    /\ UNCHANGED <<text, found, call, ret>>

Next ==
    \/ \E d \in Documents, i \in IssuerArgs : ParsePdf(d, i)
    \/ AcquireText
    \/ CheckText
    \/ ExtractField
    \/ BuildResult
    \/ Score
    \/ Fault
    \/ Finish

Spec == Init /\ [][Next]_vars

(***************************************************************************)
(* Calls of parse_pdf on documents that set the labels of one field        *)
(* against each other.                                                     *)
(***************************************************************************)
LabelTexts ==
  [
    \* the primary and the fallback label of the balance: New Balance: 100\nTotal Amount Due: 200
    BothBalances |-> <<"N", "e", "w", " ", "B", "a", "l", "a", "n", "c", "e", ":", " ", "1", "0", "0", "\n", "T", "o", "t", "a", "l", " ", "A", "m", "o", "u", "n", "t", " ", "D", "u", "e", ":", " ", "2", "0", "0">>,
    \* the fallback label of the balance before the primary one: Total Amount Due: 200\nNew Balance: 100
    FallbackBalanceFirst |-> <<"T", "o", "t", "a", "l", " ", "A", "m", "o", "u", "n", "t", " ", "D", "u", "e", ":", " ", "2", "0", "0", "\n", "N", "e", "w", " ", "B", "a", "l", "a", "n", "c", "e", ":", " ", "1", "0", "0">>,
    \* a primary label with no readable amount, and the fallback label: New Balance: .\nTotal Amount Due: 200
    BalanceUnreadable |-> <<"N", "e", "w", " ", "B", "a", "l", "a", "n", "c", "e", ":", " ", ".", "\n", "T", "o", "t", "a", "l", " ", "A", "m", "o", "u", "n", "t", " ", "D", "u", "e", ":", " ", "2", "0", "0">>,
    \* the fallback label of the balance alone: Total Amount Due: 200 only
    FallbackBalanceOnly |-> <<"T", "o", "t", "a", "l", " ", "A", "m", "o", "u", "n", "t", " ", "D", "u", "e", ":", " ", "2", "0", "0", " ", "o", "n", "l", "y">>,
    \* two period labels, each with its dates: Statement Period: 01/01/2025 - 31/01/2025.\nBilling Cycle: 01/02/2025 - 28/02/2025.
    BothPeriods |-> <<"S", "t", "a", "t", "e", "m", "e", "n", "t", " ", "P", "e", "r", "i", "o", "d", ":", " ", "0", "1", "/", "0", "1", "/", "2", "0", "2", "5", " ", "-", " ", "3", "1", "/", "0", "1", "/", "2", "0", "2", "5", ".", "\n", "B", "i", "l", "l", "i", "n", "g", " ", "C", "y", "c", "l", "e", ":", " ", "0", "1", "/", "0", "2", "/", "2", "0", "2", "5", " ", "-", " ", "2", "8", "/", "0", "2", "/", "2", "0", "2", "5", ".">>,
    \* a period whose end is no date, and a second period: Statement Period: 01/01/2025 - 31/02/2025.\nBilling Cycle: 01/02/2025 - 28/02/2025.
    PeriodUnreadable |-> <<"S", "t", "a", "t", "e", "m", "e", "n", "t", " ", "P", "e", "r", "i", "o", "d", ":", " ", "0", "1", "/", "0", "1", "/", "2", "0", "2", "5", " ", "-", " ", "3", "1", "/", "0", "2", "/", "2", "0", "2", "5", ".", "\n", "B", "i", "l", "l", "i", "n", "g", " ", "C", "y", "c", "l", "e", ":", " ", "0", "1", "/", "0", "2", "/", "2", "0", "2", "5", " ", "-", " ", "2", "8", "/", "0", "2", "/", "2", "0", "2", "5", ".">>,
    \* a period under a fallback label alone: Billing Period: 01/02/2025 - 28/02/2025.
    FallbackPeriodOnly |-> <<"B", "i", "l", "l", "i", "n", "g", " ", "P", "e", "r", "i", "o", "d", ":", " ", "0", "1", "/", "0", "2", "/", "2", "0", "2", "5", " ", "-", " ", "2", "8", "/", "0", "2", "/", "2", "0", "2", "5", ".">>,
    \* the primary period label of parse_buildingblocks and a fallback one: Opening/Closing Date: 01/03/2025 - 31/03/2025.\nBilling Period: 01/02/2025 - 28/02/2025.
    BothOpening |-> <<"O", "p", "e", "n", "i", "n", "g", "/", "C", "l", "o", "s", "i", "n", "g", " ", "D", "a", "t", "e", ":", " ", "0", "1", "/", "0", "3", "/", "2", "0", "2", "5", " ", "-", " ", "3", "1", "/", "0", "3", "/", "2", "0", "2", "5", ".", "\n", "B", "i", "l", "l", "i", "n", "g", " ", "P", "e", "r", "i", "o", "d", ":", " ", "0", "1", "/", "0", "2", "/", "2", "0", "2", "5", " ", "-", " ", "2", "8", "/", "0", "2", "/", "2", "0", "2", "5", ".">>,
    \* the primary period label of parse_buildingblocks with an end that is no date, and a fallback one: Opening/Closing Date: 01/03/2025 - 31/02/2025.\nBilling Period: 01/02/2025 - 28/02/2025.
    OpeningUnreadable |-> <<"O", "p", "e", "n", "i", "n", "g", "/", "C", "l", "o", "s", "i", "n", "g", " ", "D", "a", "t", "e", ":", " ", "0", "1", "/", "0", "3", "/", "2", "0", "2", "5", " ", "-", " ", "3", "1", "/", "0", "2", "/", "2", "0", "2", "5", ".", "\n", "B", "i", "l", "l", "i", "n", "g", " ", "P", "e", "r", "i", "o", "d", ":", " ", "0", "1", "/", "0", "2", "/", "2", "0", "2", "5", " ", "-", " ", "2", "8", "/", "0", "2", "/", "2", "0", "2", "5", ".">>
  ]

\* one page each, with a text layer
LabelDocuments ==
    {[exists |-> TRUE, pages |-> <<[layer |-> LabelTexts[n], ocr |-> LabelTexts[n]]>>] :
        n \in DOMAIN LabelTexts}

NextLabels ==
    \/ \E d \in LabelDocuments, i \in SupportedIssuers : ParsePdf(d, i)
    \/ AcquireText
    \/ CheckText
    \/ ExtractField
    \/ BuildResult
    \/ Score
    \/ Fault
    \/ Finish

SpecLabels == Init /\ [][NextLabels]_vars

(***************************************************************************)
(* Calls of parse_pdf on documents with a thin text layer: one page whose  *)
(* text layer is at or about the threshold of the structured attempt, and  *)
(* which OCR fails on, reads nothing from, or reads.                       *)
(***************************************************************************)
ThinTexts ==
  [
    \* 10 characters: Card: 1234
    Ten |-> T.Ten,
    \* 50 characters: Card No 1234\nDue Date: 15/02/25.\nTotal Due: 100.00
    Fifty |-> <<"C", "a", "r", "d", " ", "N", "o", " ", "1", "2", "3", "4", "\n", "D", "u", "e", " ", "D", "a", "t", "e", ":", " ", "1", "5", "/", "0", "2", "/", "2", "5", ".", "\n", "T", "o", "t", "a", "l", " ", "D", "u", "e", ":", " ", "1", "0", "0", ".", "0", "0">>,
    \* 51 characters: Card No 1234\nDue Date: 15/02/25.\nTotal Due: 1100.00
    FiftyOne |-> <<"C", "a", "r", "d", " ", "N", "o", " ", "1", "2", "3", "4", "\n", "D", "u", "e", " ", "D", "a", "t", "e", ":", " ", "1", "5", "/", "0", "2", "/", "2", "5", ".", "\n", "T", "o", "t", "a", "l", " ", "D", "u", "e", ":", " ", "1", "1", "0", "0", ".", "0", "0">>,
    \* what OCR reads: Card No 5678\nTotal Due: 25
    Reads |-> <<"C", "a", "r", "d", " ", "N", "o", " ", "5", "6", "7", "8", "\n", "T", "o", "t", "a", "l", " ", "D", "u", "e", ":", " ", "2", "5">>
  ]

ThinDocuments ==
    {[exists |-> TRUE, pages |-> <<[layer |-> l, ocr |-> o]>>] :
        l \in {ThinTexts.Ten, ThinTexts.Fifty, ThinTexts.FiftyOne},
        o \in {Raise, <<>>, ThinTexts.Reads}}

NextThin ==
    \/ \E d \in ThinDocuments, i \in SupportedIssuers : ParsePdf(d, i)
    \/ AcquireText
    \/ CheckText
    \/ ExtractField
    \/ BuildResult
    \/ Score
    \/ Fault
    \/ Finish

SpecThin == Init /\ [][NextThin]_vars

(***************************************************************************)
(* Direct calls of calculate_confidence.                                   *)
(***************************************************************************)
\* values of the fields
V ==
  [
    Suffix |-> <<"1", "2", "3", "4">>,
    Jan01 |-> <<"2", "0", "2", "5", "-", "0", "1", "-", "0", "1">>,
    Jan31 |-> <<"2", "0", "2", "5", "-", "0", "1", "-", "3", "1">>,
    Feb15 |-> <<"2", "0", "2", "5", "-", "0", "2", "-", "1", "5">>,
    Zero |-> <<"0", ".", "0">>,
    Due25 |-> <<"2", "5", ".", "0">>,
    Amount |-> <<"1", "2", "3", "4", ".", "5", "6">>
  ]

\* the mappings calculate_confidence is called with: every field absent or
\* present, an amount of zero included, under two issuers and two earlier
\* confidence values
ConfidenceInputs ==
    {Record(l, c, <<s, e>>, d, m, n, f) :
        l \in {"OneCard", "AMEX"}, c \in {None, V.Suffix}, s \in {None, V.Jan01},
        e \in {None, V.Jan31}, d \in {None, V.Feb15}, m \in {None, V.Zero, V.Due25},
        n \in {None, V.Zero, V.Amount}, f \in {0, 100}}

InitConfidence ==
    /\ Idle
    /\ call \in {[fn |-> "calculate_confidence", data |-> d] : d \in ConfidenceInputs}
    /\ ret = NoReturn

CallConfidence ==
    /\ call.fn = "calculate_confidence"
    /\ ~ret.done
    /\ ret' = [done |-> TRUE, value |-> calculate_confidence(call.data)]
    /\ UNCHANGED <<pipeline, call>>

NextConfidence == CallConfidence

SpecConfidence == InitConfidence /\ [][NextConfidence]_vars

(***************************************************************************)
(* Direct calls of extract_card_last4.                                     *)
(***************************************************************************)
\* pieces of text
F ==
  [
    Mask |-> <<"X", "X", "X", "X", " ", "X", "X", "X", "X", " ", "X", "X", "X", "X", " ">>,
    CardNumber |-> <<"C", "a", "r", "d", " ", "N", "u", "m", "b", "e", "r", ":", " ">>,
    Year |-> <<"Y", "e", "a", "r", ":", " ", "2", "0", "2", "5", " ">>,
    Year2025 |-> <<"2", "0", "2", "5">>,
    Card5678 |-> <<"5", "6", "7", "8">>,
    Newline |-> <<"\n">>
  ]

\* the most fragments a text is made of
MaxFragments == 3

RECURSIVE Concat(_)
Concat(parts) == IF parts = <<>> THEN <<>> ELSE Head(parts) \o Concat(Tail(parts))

Last4Texts == {Concat(ps) : ps \in UNION {[1..n -> {F[k] : k \in DOMAIN F}] : n \in 0..MaxFragments}}

\* texts that set the three steps of extract_card_last4 against each other
StepTexts ==
  [
    \* a masked number, then another number after a keyword: XXXX XXXX XXXX 5678\nCard: 1234
    MaskedThenCard |-> <<"X", "X", "X", "X", " ", "X", "X", "X", "X", " ", "X", "X", "X", "X", " ", "5", "6", "7", "8", "\n", "C", "a", "r", "d", ":", " ", "1", "2", "3", "4">>,
    \* a masked number that reads as a year, then a number after a keyword: XXXX XXXX XXXX 2025\nCard: 1234
    MaskedYearThenCard |-> <<"X", "X", "X", "X", " ", "X", "X", "X", "X", " ", "X", "X", "X", "X", " ", "2", "0", "2", "5", "\n", "C", "a", "r", "d", ":", " ", "1", "2", "3", "4">>,
    \* a number before the keyword and another after it, on one line: 1234 Card: 5678
    NumberThenCard |-> <<"1", "2", "3", "4", " ", "C", "a", "r", "d", ":", " ", "5", "6", "7", "8">>,
    \* the keyword twice, a number after each: Card: 1234 Card: 5678
    TwoCards |-> <<"C", "a", "r", "d", ":", " ", "1", "2", "3", "4", " ", "C", "a", "r", "d", ":", " ", "5", "6", "7", "8">>,
    \* the keyword twice, the number after the second reads as a year: Card: 1234 Card: 2025
    CardThenYear |-> <<"C", "a", "r", "d", ":", " ", "1", "2", "3", "4", " ", "C", "a", "r", "d", ":", " ", "2", "0", "2", "5">>,
    \* two keywords, a number after each: Account: 1234\nCard: 5678
    AccountThenCard |-> <<"A", "c", "c", "o", "u", "n", "t", ":", " ", "1", "2", "3", "4", "\n", "C", "a", "r", "d", ":", " ", "5", "6", "7", "8">>,
    \* a corroborating term that starts 50 characters before the match of AMEX: ACCOUNT(42 dots)\nAMEX: 5678
    TermAtWindow |-> <<"A", "C", "C", "O", "U", "N", "T", ".", ".", ".", ".", ".", ".", ".", ".", ".", ".", ".", ".", ".", ".", ".", ".", ".", ".", ".", ".", ".", ".", ".", ".", ".", ".", ".", ".", ".", ".", ".", ".", ".", ".", ".", ".", ".", ".", ".", ".", ".", ".", "\n", "A", "M", "E", "X", ":", " ", "5", "6", "7", "8">>,
    \* a corroborating term that starts 51 characters before the match of AMEX: ACCOUNT(43 dots)\nAMEX: 5678
    TermBeforeWindow |-> <<"A", "C", "C", "O", "U", "N", "T", ".", ".", ".", ".", ".", ".", ".", ".", ".", ".", ".", ".", ".", ".", ".", ".", ".", ".", ".", ".", ".", ".", ".", ".", ".", ".", ".", ".", ".", ".", ".", ".", ".", ".", ".", ".", ".", ".", ".", ".", ".", ".", ".", "\n", "A", "M", "E", "X", ":", " ", "5", "6", "7", "8">>,
    \* a corroborating term that ends 50 characters after the match of AMEX: AMEX: 5678\n(42 dots)account
    TermAtWindowEnd |-> <<"A", "M", "E", "X", ":", " ", "5", "6", "7", "8", "\n", ".", ".", ".", ".", ".", ".", ".", ".", ".", ".", ".", ".", ".", ".", ".", ".", ".", ".", ".", ".", ".", ".", ".", ".", ".", ".", ".", ".", ".", ".", ".", ".", ".", ".", ".", ".", ".", ".", ".", ".", ".", ".", "a", "c", "c", "o", "u", "n", "t">>,
    \* a corroborating term that ends 51 characters after the match of AMEX: AMEX: 5678\n(43 dots)account
    TermAfterWindow |-> <<"A", "M", "E", "X", ":", " ", "5", "6", "7", "8", "\n", ".", ".", ".", ".", ".", ".", ".", ".", ".", ".", ".", ".", ".", ".", ".", ".", ".", ".", ".", ".", ".", ".", ".", ".", ".", ".", ".", ".", ".", ".", ".", ".", ".", ".", ".", ".", ".", ".", ".", ".", ".", ".", ".", "a", "c", "c", "o", "u", "n", "t">>
  ]

\* the keyword lists of the calls: none, and those of parse_onecard,
\* parse_buildingblocks and parse_amex
KeywordLists ==
    {NoKeywords,
     <<W.Card, W.Account, W.OneCard>>,
     <<W.Account, W.Card, W.Number>>,
     <<W.Card, W.AMEX, W.AmericanExpress, W.Ending>>}

InitLast4 ==
    /\ Idle
    /\ call \in {[fn |-> "extract_card_last4", text |-> t, keywords |-> k] :
                    t \in Last4Texts,
                    k \in {NoKeywords, <<W.Card, W.Account, W.OneCard>>}}
                \cup
                {[fn |-> "extract_card_last4", text |-> StepTexts[n], keywords |-> k] :
                    n \in DOMAIN StepTexts, k \in KeywordLists}
    /\ ret = NoReturn

CallLast4 ==
    /\ call.fn = "extract_card_last4"
    /\ ~ret.done
    /\ ret' = [done |-> TRUE, value |-> extract_card_last4(call.text, call.keywords)]
    /\ UNCHANGED <<pipeline, call>>

NextLast4 == CallLast4

SpecLast4 == InitLast4 /\ [][NextLast4]_vars

(***************************************************************************)
(* Direct calls of normalize_currency.                                     *)
(***************************************************************************)
AmountChars == {"$", "rupee", "0", "1", "5", ",", ".", " ", "x"}

\* the longest string of AmountChars passed
MaxAmountLen == 4

\* amounts as statements print them
A ==
  [
    Dollar |-> <<"$", "1", ",", "2", "3", "4", ".", "5", "6">>,
    Rupee |-> <<"rupee">> \o <<"1", ",", "2", "3", "4", ".", "5", "6">>,
    Spaced |-> <<" ", "$", " ", "1", " ", "2", "3", "4", " ">>
  ]

AmountStrings ==
    UNION {[1..n -> AmountChars] : n \in 0..MaxAmountLen} \cup {A.Dollar, A.Rupee, A.Spaced}

InitCurrency ==
    /\ Idle
    /\ call \in {[fn |-> "normalize_currency", value |-> v] :
                    v \in {NoneArg} \cup {StrArg(a) : a \in AmountStrings}}
    /\ ret = NoReturn

CallCurrency ==
    /\ call.fn = "normalize_currency"
    /\ ~ret.done
    /\ ret' = [done |-> TRUE, value |-> normalize_currency(call.value)]
    /\ UNCHANGED <<pipeline, call>>

NextCurrency == CallCurrency

SpecCurrency == InitCurrency /\ [][NextCurrency]_vars

(***************************************************************************)
(* Direct calls of normalize_date.                                         *)
(***************************************************************************)
\* a date written day/month/year, as the statements print it
DayFirst(d, m, y) == Pad(d, 2) \o <<"/">> \o Pad(m, 2) \o <<"/">> \o Pad(y, 4)

\* the strings passed: year-month-day and day/month/year, of days that exist
\* and of days that do not, a date with a month name, and the empty string
DateStrings ==
    LET years == {2024, 2025}
        days == {1, 5, 12, 13, 15, 29, 30, 31}
    IN  {FormatDate(y, m, d) : y \in years, m \in 1..12, d \in days}
        \cup {DayFirst(d, m, y) : y \in years, m \in 1..12, d \in days}
        \cup {<<"1", "5", " ", "J", "a", "n", " ", "2", "0", "2", "5">>, <<>>}

InitDate ==
    /\ Idle
    /\ call \in {[fn |-> "normalize_date", date_str |-> s] : s \in {None} \cup DateStrings}
    /\ ret = NoReturn

CallDate ==
    /\ call.fn = "normalize_date"
    /\ ~ret.done
    /\ ret' = [done |-> TRUE, value |-> normalize_date(call.date_str)]
    /\ UNCHANGED <<pipeline, call>>

NextDate == CallDate

SpecDate == InitDate /\ [][NextDate]_vars

(***************************************************************************)
(* detect_issuer, and direct calls of it.                                  *)
(***************************************************************************)
\* the identifiers as detect_issuer looks for them in the lowered path
IssuerText ==
  [
    onecard |-> <<"o", "n", "e", "c", "a", "r", "d">>,
    buildingblocks |-> <<"b", "u", "i", "l", "d", "i", "n", "g", "b", "l", "o", "c", "k", "s">>,
    hdfc |-> <<"h", "d", "f", "c">>,
    amex |-> <<"a", "m", "e", "x">>,
    firstcitizens |-> <<"f", "i", "r", "s", "t", "c", "i", "t", "i", "z", "e", "n", "s">>
  ]

\* a variant of detect_issuer that does not lower the path: C13 tells the
\* two apart
detect_issuer_cased(pdf_path) ==
    IF Contains(pdf_path, IssuerText.onecard) THEN "onecard"
    ELSE IF Contains(pdf_path, IssuerText.buildingblocks) THEN "buildingblocks"
    ELSE IF Contains(pdf_path, IssuerText.hdfc) THEN "hdfc"
    ELSE IF Contains(pdf_path, IssuerText.amex) THEN "amex"
    ELSE IF Contains(pdf_path, IssuerText.firstcitizens) THEN "firstcitizens"
    ELSE "unknown"

detect_issuer(pdf_path) ==
    IF Contains(LowerText(pdf_path), IssuerText.onecard) THEN "onecard"
    ELSE IF Contains(LowerText(pdf_path), IssuerText.buildingblocks) THEN "buildingblocks"
    ELSE IF Contains(LowerText(pdf_path), IssuerText.hdfc) THEN "hdfc"
    ELSE IF Contains(LowerText(pdf_path), IssuerText.amex) THEN "amex"
    ELSE IF Contains(LowerText(pdf_path), IssuerText.firstcitizens) THEN "firstcitizens"
    ELSE "unknown"

\* pieces of a path
PathPieces ==
  [
    Statements |-> <<"s", "t", "a", "t", "e", "m", "e", "n", "t", "s", "/">>,
    Test |-> <<"/", "t", "e", "s", "t", ".", "p", "d", "f">>,
    Visa |-> <<"v", "i", "s", "a">>,
    OneCard |-> <<"o", "n", "e", "c", "a", "r", "d">>,
    BuildingBlocks |-> <<"b", "u", "i", "l", "d", "i", "n", "g", "b", "l", "o", "c", "k", "s">>,
    Hdfc |-> <<"h", "d", "f", "c">>,
    UpperHdfc |-> <<"H", "D", "F", "C">>,
    Hd |-> <<"h", "d">>,
    Fc |-> <<"f", "c">>,
    Amex |-> <<"A", "m", "e", "x">>,
    FirstCitizens |-> <<"f", "i", "r", "s", "t", "c", "i", "t", "i", "z", "e", "n", "s">>
  ]

\* the most pieces a path is made of
MaxPieces == 2

Paths == {Concat(ps) : ps \in UNION {[1..n -> {PathPieces[k] : k \in DOMAIN PathPieces}] :
                                        n \in 0..MaxPieces}}

InitDetect ==
    /\ Idle
    /\ call \in {[fn |-> "detect_issuer", pdf_path |-> p] : p \in Paths}
    /\ ret = NoReturn

CallDetect ==
    /\ call.fn = "detect_issuer"
    /\ ~ret.done
    /\ ret' = [done |-> TRUE, value |-> detect_issuer(call.pdf_path)]
    /\ UNCHANGED <<pipeline, call>>

NextDetect == CallDetect

SpecDetect == InitDetect /\ [][NextDetect]_vars

(***************************************************************************)
(* The command-line tool: main of parse.py.  call holds the arguments, the *)
(* file at the path and where main stands; ret holds what main has printed,*)
(* the rows it has appended to the CSV file and, once it has ended, its    *)
(* exit status.                                                            *)
(***************************************************************************)
\* the paths main is started with
MainPaths ==
    {PathPieces.Statements \o id \o PathPieces.Test :
        id \in {PathPieces.OneCard, PathPieces.BuildingBlocks, PathPieces.UpperHdfc,
                PathPieces.Amex, PathPieces.FirstCitizens, PathPieces.Visa}}

\* what is at the path: nothing, or a document of at most one page
MainFiles ==
    {MissingFile} \cup {[exists |-> TRUE, pages |-> ps] : ps \in {<<>>} \cup {<<p>> : p \in Pages}}

\* the row append_to_csv writes for data
Row(data) ==
    [issuer |-> data.issuer,
     last4 |-> data.card_last4,
     bill_start |-> data.billing_period.start,
     bill_end |-> data.billing_period.end,
     payment_due |-> data.payment_due_date,
     new_balance |-> data.new_balance,
     minimum_due |-> data.minimum_due,
     confidence |-> data.confidence]

\* sys.argv[1:] is args; nothing is printed or appended yet
InitMain ==
    /\ Idle
    /\ call \in {[fn |-> "main", at |-> "args", args |-> a, file |-> f, issuer |-> "unknown"] :
                    a \in {<<>>} \cup {<<p>> : p \in MainPaths}, f \in MainFiles}
    /\ ret = [done |-> FALSE, out |-> <<>>, rows |-> <<>>]

\* print(line); sys.exit(status)
Exit(line, status) ==
    /\ ret' = [done |-> TRUE, status |-> status, out |-> Append(ret.out, line), rows |-> ret.rows]
    /\ call' = [call EXCEPT !.at = "exit"]

\* if len(sys.argv) < 2: usage, exit 1
MainArgs ==
    /\ call.fn = "main"
    /\ call.at = "args"
    /\ IF call.args = <<>> THEN Exit([line |-> "usage"], 1)
       ELSE call' = [call EXCEPT !.at = "isfile"] /\ UNCHANGED ret
    /\ UNCHANGED pipeline

\* if not os.path.isfile(pdf_path): error, exit 1
MainIsFile ==
    /\ call.fn = "main"
    /\ call.at = "isfile"
    /\ IF ~call.file.exists THEN Exit([line |-> "file not found"], 1)
       ELSE call' = [call EXCEPT !.at = "detect"] /\ UNCHANGED ret
    /\ UNCHANGED pipeline

\* issuer = detect_issuer(pdf_path), with a warning when it is unknown
MainDetect ==
    /\ call.fn = "main"
    /\ call.at = "detect"
    /\ call' = [call EXCEPT !.at = "parse", !.issuer = detect_issuer(call.args[1])]
    /\ ret' = IF detect_issuer(call.args[1]) = "unknown"
              THEN [ret EXCEPT !.out = Append(@, [line |-> "could not detect issuer"])]
              ELSE ret
    /\ UNCHANGED pipeline

\* data = parse_pdf(pdf_path, issuer): the call
MainParse ==
    /\ call.fn = "main"
    /\ call.at = "parse"
    /\ ParsePdf(call.file, call.issuer)

\* a variant of MainResult that does not look for the error key: C15 tells
\* the two apart
MainResultUnchecked ==
    /\ call.fn = "main"
    /\ call.at = "parse"
    /\ pc = "returned"
    /\ call' = [call EXCEPT !.at = "append"]
    /\ ret' = [ret EXCEPT !.out = Append(@, [line |-> "record", data |-> result])]
    /\ UNCHANGED pipeline

\* if "error" in data: error, exit 1; else print(json.dumps(data))
MainResult ==
    /\ call.fn = "main"
    /\ call.at = "parse"
    /\ pc = "returned"
    /\ IF "error" \in DOMAIN result THEN Exit([line |-> "error", error |-> result.error], 1)
       ELSE /\ call' = [call EXCEPT !.at = "append"]
            /\ ret' = [ret EXCEPT !.out = Append(@, [line |-> "record", data |-> result])]
    /\ UNCHANGED pipeline

\* append_to_csv(data): the row is written, or the failure to write it is
\* caught and reported; main then ends with status 0
MainAppend ==
    /\ call.fn = "main"
    /\ call.at = "append"
    /\ call' = [call EXCEPT !.at = "exit"]
    /\ \E written \in BOOLEAN :
          ret' = IF written
                 THEN [done |-> TRUE, status |-> 0, out |-> ret.out,
                       rows |-> Append(ret.rows, Row(result))]
                 ELSE [done |-> TRUE, status |-> 0,
                       out |-> Append(ret.out, [line |-> "failed to append to CSV"]),
                       rows |-> ret.rows]
    /\ UNCHANGED pipeline

NextMain ==
    \/ MainArgs
    \/ MainIsFile
    \/ MainDetect
    \/ MainParse
    \/ AcquireText
    \/ CheckText
    \/ ExtractField
    \/ BuildResult
    \/ Score
    \/ Fault
    \/ MainResult
    \/ MainAppend

SpecMain == InitMain /\ [][NextMain]_vars

(***************************************************************************)
(* extract_text_with_ocr_fallback, step by step.  call holds the document  *)
(* at the path, where the function stands, the page the fallback has come  *)
(* to, its list ocr_text and the lines printed so far; ret holds the text  *)
(* the function returns.                                                   *)
(***************************************************************************)
\* n times the character ch
Run(ch, n) == [k \in 1..n |-> ch]

\* what a page's text layer gives: nothing, a failure, half the threshold,
\* the threshold, one more, and the threshold between white space
ScanLayers ==
    {None, <<>>, Raise,
     Run("a", MinStructuredLength \div 2),
     Run("a", MinStructuredLength),
     Run("a", MinStructuredLength + 1),
     <<" ">> \o Run("a", MinStructuredLength) \o <<"\n">>}

\* what OCR gives for a page: a failure, nothing, or one of two short texts
ScanOcr == {Raise, <<>>, <<"o", "n", "e">>, <<"t", "w", "o">>}

ScanPages == {[layer |-> l, ocr |-> o] : l \in ScanLayers, o \in ScanOcr}

\* the most pages a scanned document has
MaxScanPages == 2

ScanDocuments ==
    {MissingFile} \cup
    {[exists |-> TRUE, pages |-> ps] : ps \in UNION {[1..n -> ScanPages] : n \in 0..MaxScanPages}}

\* handles counts the document handles that are open, text is the local of
\* the structured attempt
InitAcquire ==
    /\ Idle
    /\ call \in {[fn |-> "extract_text_with_ocr_fallback", pdf_path |-> d, at |-> "structured",
                  handles |-> 0, text |-> None, page_num |-> 0, ocr_text |-> <<>>,
                  out |-> <<>>] : d \in ScanDocuments}
    /\ ret = NoReturn

\* first try: with pdfplumber.open(pdf_path) as pdf
OpenStructured ==
    /\ call.fn = "extract_text_with_ocr_fallback"
    /\ call.at = "structured"
    /\ call' = IF call.pdf_path.exists
               THEN [call EXCEPT !.at = "read", !.handles = @ + 1]
               ELSE [call EXCEPT !.at = "fallback",
                                 !.out = Append(@, <<"pdfplumber extraction failed">>)]
    /\ UNCHANGED <<pipeline, ret>>

\* a variant of ReadStructured that leaves the handle open, as a plain open
\* without the with block would: C23 tells the two apart
ReadStructuredUnscoped ==
    /\ call.fn = "extract_text_with_ocr_fallback"
    /\ call.at = "read"
    /\ LET Read(txt) ==
               IF txt = Raise
               THEN call' = [call EXCEPT !.at = "fallback",
                                         !.out = Append(@, <<"pdfplumber extraction failed">>)]
               ELSE call' = [call EXCEPT !.at = "check", !.text = txt]
       IN  Read(StructuredText(call.pdf_path))
    /\ UNCHANGED <<pipeline, ret>>

\* the body of the with block: the text layers of the pages are joined; the
\* block is left, by its end or by an exception, and the handle released
ReadStructured ==
    /\ call.fn = "extract_text_with_ocr_fallback"
    /\ call.at = "read"
    /\ LET Read(txt) ==
               IF txt = Raise
               THEN call' = [call EXCEPT !.at = "fallback", !.handles = @ - 1,
                                         !.out = Append(@, <<"pdfplumber extraction failed">>)]
               ELSE call' = [call EXCEPT !.at = "check", !.handles = @ - 1, !.text = txt]
       IN  Read(StructuredText(call.pdf_path))
    /\ UNCHANGED <<pipeline, ret>>

\* a variant of Meaningful that takes a text of exactly the threshold: C16
\* tells the two apart
MeaningfulFromThreshold(txt) == ~Falsy(txt) /\ Len(Strip(txt)) >= MinStructuredLength

\* text and len(text.strip()) > 50
Meaningful(txt) == ~Falsy(txt) /\ Len(Strip(txt)) > MinStructuredLength

\* if text and len(text.strip()) > 50: return text
CheckLength ==
    /\ call.fn = "extract_text_with_ocr_fallback"
    /\ call.at = "check"
    /\ IF Meaningful(call.text)
       THEN /\ call' = [call EXCEPT !.at = "returned"]
            /\ ret' = [done |-> TRUE, value |-> call.text]
       ELSE /\ call' = [call EXCEPT !.at = "fallback"]
            /\ UNCHANGED ret
    /\ UNCHANGED pipeline

\* the fallback is announced and the file opened again
OpenForOcr ==
    /\ call.fn = "extract_text_with_ocr_fallback"
    /\ call.at = "fallback"
    /\ IF call.pdf_path.exists
       THEN /\ call' = [call EXCEPT !.at = "ocr", !.handles = @ + 1,
                                    !.out = Append(@, <<"Falling back to OCR">>)]
            /\ UNCHANGED ret
       ELSE /\ call' = [call EXCEPT !.at = "returned",
                                    !.out = @ \o << <<"Falling back to OCR">>, <<"OCR fallback failed">> >>]
            /\ ret' = [done |-> TRUE, value |-> <<>>]
    /\ UNCHANGED pipeline

\* a variant of OcrPage without the handler around one page, so that the
\* failure of a page is the failure of the whole fallback: C17 tells the two
\* apart
OcrPageUnguarded ==
    /\ call.fn = "extract_text_with_ocr_fallback"
    /\ call.at = "ocr"
    /\ call.page_num < Len(call.pdf_path.pages)
    /\ LET Ocr(page_text) ==
               IF page_text = Raise
               THEN /\ call' = [call EXCEPT !.at = "returned", !.handles = @ - 1,
                                            !.out = Append(@, <<"OCR fallback failed">>)]
                    /\ ret' = [done |-> TRUE, value |-> <<>>]
               ELSE /\ call' = [call EXCEPT !.page_num = @ + 1, !.ocr_text = Append(@, page_text)]
                    /\ UNCHANGED ret
       IN  Ocr(call.pdf_path.pages[call.page_num + 1].ocr)
    /\ UNCHANGED pipeline

\* one turn of the loop over the pages: the page is rasterized and read
OcrPage ==
    /\ call.fn = "extract_text_with_ocr_fallback"
    /\ call.at = "ocr"
    /\ call.page_num < Len(call.pdf_path.pages)
    /\ LET Ocr(page_text) ==
               IF page_text = Raise
               THEN call' = [call EXCEPT !.page_num = @ + 1,
                                         !.out = Append(@, <<"OCR failed for page", call.page_num + 1>>)]
               ELSE call' = [call EXCEPT !.page_num = @ + 1, !.ocr_text = Append(@, page_text)]
       IN  Ocr(call.pdf_path.pages[call.page_num + 1].ocr)
    /\ UNCHANGED <<pipeline, ret>>

\* the loop has come to its end: the with block is left and the handle released
LeaveOcr ==
    /\ call.fn = "extract_text_with_ocr_fallback"
    /\ call.at = "ocr"
    /\ call.page_num = Len(call.pdf_path.pages)
    /\ call' = [call EXCEPT !.at = "join", !.handles = @ - 1]
    /\ UNCHANGED <<pipeline, ret>>

\* combined_text = "\n".join(ocr_text); return combined_text if combined_text else ""
JoinOcr ==
    /\ call.fn = "extract_text_with_ocr_fallback"
    /\ call.at = "join"
    /\ call' = [call EXCEPT !.at = "returned"]
    /\ ret' = [done |-> TRUE, value |-> JoinLines(call.ocr_text)]
    /\ UNCHANGED pipeline

NextAcquire ==
    \/ OpenStructured
    \/ ReadStructured
    \/ CheckLength
    \/ OpenForOcr
    \/ OcrPage
    \/ LeaveOcr
    \/ JoinOcr

SpecAcquire == InitAcquire /\ [][NextAcquire]_vars

(***************************************************************************)
(* Properties.                                                             *)
(***************************************************************************)
\* an extractor has returned its mapping
Returned == pc = "returned" /\ extractor # "none"

Present(v) == v # None

\* both ends of the period of mapping d are present
PeriodComplete(d) == Present(d.billing_period.start) /\ Present(d.billing_period.end)

\* the points of mapping d counted in halves: 2 for each of the four fields
\* worth a point, 1 for the minimum due
HalfPoints(d) ==
    (IF Present(d.card_last4) THEN 2 ELSE 0)
    + (IF PeriodComplete(d) THEN 2 ELSE 0)
    + (IF Present(d.payment_due_date) THEN 2 ELSE 0)
    + (IF Present(d.new_balance) THEN 2 ELSE 0)
    + (IF Present(d.minimum_due) THEN 1 ELSE 0)

\* h / 9 rounded to two decimals, in hundredths, for h = 0..9 half points
ConfidenceTable == <<0, 11, 22, 33, 44, 56, 67, 78, 89, 100>>

\* C1: calculate_confidence returns the points over 4.5 rounded to two
\* decimals: a point each for the card suffix, the due date and the new
\* balance when present, a point for the period only when both ends are
\* present, half a point for the minimum due; neither the issuer nor the
\* earlier confidence changes the score.
C1_ConfidenceIsPointsOverMax ==
    (call.fn = "calculate_confidence" /\ ret.done)
        => ret.value = ConfidenceTable[HalfPoints(call.data) + 1]

\* a period with one end only and a minimum due: half a point, 0.11
C1_Witness ==
    /\ call.fn = "calculate_confidence"
    /\ ret.done
    /\ Present(call.data.billing_period.start)
    /\ ~Present(call.data.billing_period.end)
    /\ Present(call.data.minimum_due)
    /\ HalfPoints(call.data) = 1
    /\ ret.value = 11

\* card suffix, complete period, due date and new balance all absent
FourAbsent(d) ==
    /\ ~Present(d.card_last4)
    /\ ~PeriodComplete(d)
    /\ ~Present(d.payment_due_date)
    /\ ~Present(d.new_balance)

\* C2 as stated: the confidence of a result is 0.0 if and only if card
\* suffix, billing period (both ends), due date and new balance are absent.
C2_ZeroIffFourAbsent ==
    Returned => (result.confidence = 0 <=> FourAbsent(result))

\* C2: the confidence of a result is 0.0 if and only if card suffix, billing
\* period (both ends), due date, new balance and minimum due are all absent.
C2_ZeroIffAllAbsent ==
    Returned => (result.confidence = 0 <=> (FourAbsent(result) /\ ~Present(result.minimum_due)))

\* a result with a minimum due and nothing else: confidence 0.11
C2_Witness ==
    /\ Returned
    /\ FourAbsent(result)
    /\ Present(result.minimum_due)
    /\ result.confidence = 11

\* C3: every record an extractor returns through parse_pdf, after a normal
\* extraction, a short text or a caught exception, has a confidence between
\* 0.0 and 1.0.
C3_ConfidenceInUnitInterval ==
    Returned => (result.confidence >= 0 /\ result.confidence <= 100)

\* a normal extraction that finds every field: confidence 1.0
C3_Witness ==
    /\ Returned
    /\ ~faulted
    /\ searches = 5
    /\ HalfPoints(result) = 9
    /\ result.confidence = 100

\* v is a string of four digits that reads as a year from 1900 to 2099
YearLike(v) ==
    /\ Len(v) = 4
    /\ \A k \in 1..4 : v[k] \in Digits
    /\ ToInt(v) >= 1900
    /\ ToInt(v) <= 2099

T_YearThenCard == F.Year \o F.CardNumber \o F.Card5678

\* C4: extract_card_last4 never returns four digits that read as a year from
\* 1900 to 2099, and neither does any of its three steps (masked pattern,
\* keyword pattern, line scan); for "Year: 2025 Card Number: 5678" it
\* returns "5678".
C4_SharedLocatorNeverYear ==
    (call.fn = "extract_card_last4" /\ ret.done) =>
        /\ ~YearLike(ret.value)
        /\ ~YearLike(MaskedStep(call.text))
        /\ ~YearLike(KeywordStep(call.text,
                IF call.keywords = NoKeywords THEN DefaultKeywords ELSE call.keywords))
        /\ ~YearLike(LineStep(call.text))
        /\ call.text = T_YearThenCard => ret.value = F.Card5678

\* the year before the card number is passed over
C4_Witness ==
    /\ call.fn = "extract_card_last4"
    /\ ret.done
    /\ call.text = T_YearThenCard
    /\ ret.value = F.Card5678

\* C5: in every record an extractor returns, card_last4 is none or four
\* digits that do not read as a year from 1900 to 2099, the values of the
\* extractors' own suffix patterns included.
C5_RecordLast4NeverYear ==
    Returned =>
        \/ result.card_last4 = None
        \/ /\ Len(result.card_last4) = 4
           /\ \A k \in 1..4 : result.card_last4[k] \in Digits
           /\ ~YearLike(result.card_last4)

\* C6: parse_pdf with an identifier outside the five supported ones returns
\* the mapping whose only key is error, with the fixed message, and runs no
\* extractor, no acquisition and no search.
C6_UnsupportedIssuerOnlyError ==
    (pc # "idle" /\ issuer \notin SupportedIssuers) =>
        /\ pc = "returned"
        /\ DOMAIN result = {"error"}
        /\ result.error = "issuer not supported"
        /\ extractor = "none"
        /\ acquired = 0
        /\ searches = 0

\* an identifier that differs from a supported one by its case only
C6_Witness ==
    /\ pc = "returned"
    /\ issuer = "HDFC"
    /\ doc.exists
    /\ doc.pages # <<>>
    /\ result = ErrorRecord

\* the number of characters of t once trimmed
TrimmedLength(t) == Len(Strip(t))

\* C7: when the acquired text is empty or has fewer than 10 characters once
\* trimmed, the extractor returns the record with every field none and
\* confidence 0.0 without running a search; a text of exactly 10 trimmed
\* characters is searched.
C7_ShortTextShortCircuit ==
    /\ (Returned /\ ~faulted /\ TrimmedLength(extract_text_with_ocr_fallback(doc)) < 10)
          => (result = EmptyRecord(IssuerLabel(extractor)) /\ searches = 0)
    /\ (Returned /\ ~faulted /\ TrimmedLength(extract_text_with_ocr_fallback(doc)) = 10)
          => searches = 5
    /\ pc \in SearchSteps => TrimmedLength(text) >= 10

ShortPage == [layer |-> T.Short, ocr |-> T.Short]

\* a text of 9 trimmed characters that holds a card number
C7_Witness ==
    /\ Returned
    /\ ~faulted
    /\ doc.pages = <<ShortPage>>
    /\ TrimmedLength(extract_text_with_ocr_fallback(doc)) = 9
    /\ result = EmptyRecord(IssuerLabel(extractor))
    /\ searches = 0

RecordKeys == {"issuer", "card_last4", "billing_period", "payment_due_date", "minimum_due",
               "new_balance", "confidence"}

\* C8: every call of an extractor, for a file that does not exist too, ends
\* by returning a mapping with exactly the seven keys and the period's start
\* and end, never by raising; an exception raised during the extraction
\* yields the record with the issuer set, every field none, confidence 0.0.
C8_ExtractorAlwaysReturnsRecord ==
    /\ pc \in {"idle", "returned"} \cup TrySteps
    /\ Returned =>
          /\ DOMAIN result = RecordKeys
          /\ DOMAIN result.billing_period = {"start", "end"}
          /\ result.issuer = IssuerLabel(extractor)
          /\ faulted => result = EmptyRecord(IssuerLabel(extractor))
          /\ ~doc.exists => result = EmptyRecord(IssuerLabel(extractor))

\* an exception caught after the first searches have run
C8_Witness ==
    /\ Returned
    /\ faulted
    /\ searches > 0
    /\ result = EmptyRecord(IssuerLabel(extractor))

\* t holds the masked card number line, and besides it only blank lines and
\* lines without a field
MaskedOnly(t) ==
    LET lines == SplitLines(t)
    IN  /\ \E k \in 1..Len(lines) : lines[k] = T.Masked
        /\ \A k \in 1..Len(lines) : lines[k] \in {T.Masked, T.Filler, <<>>}

\* C9: for every extractor, a text that holds "Card Number: XXXX XXXX XXXX
\* 1234" and no other field yields card_last4 "1234", the period's ends, the
\* due date, the minimum due and the new balance none, and confidence 0.22.
C9_MaskedNumberOnly ==
    (Returned /\ ~faulted /\ MaskedOnly(extract_text_with_ocr_fallback(doc))) =>
        result = Record(IssuerLabel(extractor), V.Suffix, NoPeriod, None, None, None, 22)

FillerPage == [layer |-> T.Filler, ocr |-> T.Filler]
MaskedPage == [layer |-> T.Masked, ocr |-> T.Masked]

\* the masked number on the second page, read by parse_hdfc
C9_Witness ==
    /\ Returned
    /\ ~faulted
    /\ extractor = "hdfc"
    /\ doc.pages = <<FillerPage, MaskedPage>>
    /\ result.card_last4 = V.Suffix
    /\ result.confidence = 22

\* the digits of s and the number of them after its decimal point
DigitsOf(s) == SelectSeq(s, LAMBDA c : c \in Digits)
Scale(s) ==
    LET dots == {k \in 1..Len(s) : s[k] = "."}
    IN  IF dots = {} THEN 0 ELSE Len(DigitsOf(SubSeq(s, SetMin(dots), Len(s))))

\* do the decimal numerals a and b denote the same number
SameNumber(a, b) ==
    ToInt(DigitsOf(a)) * 10 ^ Scale(b) = ToInt(DigitsOf(b)) * 10 ^ Scale(a)

Count(s, chars) == Cardinality({k \in 1..Len(s) : s[k] \in chars})

\* s is made of at most one currency glyph, digits, thousands separators, at
\* most one decimal point and whitespace, with a digit at least
IsAmount(s) ==
    /\ \A k \in 1..Len(s) : s[k] \in CurrencyGlyphs \cup Digits \cup {",", "."} \cup SpaceChars
    /\ Count(s, CurrencyGlyphs) <= 1
    /\ Count(s, {"."}) <= 1
    /\ Count(s, Digits) >= 1

\* s cannot be read as a number: a character that belongs to no amount, no
\* digit, or two decimal points
Unreadable(s) ==
    \/ \E k \in 1..Len(s) : s[k] \notin CurrencyGlyphs \cup Digits \cup {",", "."} \cup SpaceChars
    \/ Count(s, Digits) = 0
    \/ Count(s, {"."}) > 1

Canonical(d) ==
    /\ d # None
    /\ Len(d) = 10
    /\ d[5] = "-"
    /\ d[8] = "-"
    /\ \A k \in {1, 2, 3, 4, 6, 7, 9, 10} : d[k] \in Digits
    /\ ToInt(SubSeq(d, 1, 4)) >= 1
    /\ ToInt(SubSeq(d, 6, 7)) \in 1..12
    /\ ToInt(SubSeq(d, 9, 10)) >= 1
    /\ ToInt(SubSeq(d, 9, 10)) <= DaysIn(ToInt(SubSeq(d, 1, 4)), ToInt(SubSeq(d, 6, 7)))

\* C11: normalize_date returns every date that exists and is written
\* YYYY-MM-DD as it is, and normalizing a returned value again returns the
\* same value.
C11_CanonicalDateFixed ==
    (call.fn = "normalize_date" /\ ret.done) =>
        /\ Canonical(call.date_str) => ret.value = call.date_str
        /\ ret.value # None => normalize_date(ret.value) = ret.value

\* v is none or the text of a number that is not negative
NoneOrNonNegative(v) ==
    \/ v = None
    \/ /\ v # <<>>
       /\ \A k \in 1..Len(v) : v[k] \in Digits \cup {"."}
       /\ Count(v, {"."}) <= 1
       /\ Count(v, Digits) >= 1

\* C12: in every record an extractor returns, minimum_due and new_balance
\* are each none or a number that is not negative.
C12_AmountsNotNegative ==
    Returned => (NoneOrNonNegative(result.minimum_due) /\ NoneOrNonNegative(result.new_balance))

CreditPage == [layer |-> T.Credit, ocr |-> T.Credit]

\* a statement with a credit balance: the balance is not read
C12_Witness ==
    /\ Returned
    /\ ~faulted
    /\ searches = 5
    /\ doc.pages = <<CreditPage>>
    /\ result.new_balance = None

\* path contains identifier x, whatever the case of its letters
Names(path, x) == Contains(LowerText(path), IssuerText[x])

\* the order in which detect_issuer looks for the identifiers
DetectOrder == <<"onecard", "buildingblocks", "hdfc", "amex", "firstcitizens">>

\* the identifiers looked for before x
Before(x) == {DetectOrder[j] : j \in 1..((CHOOSE k \in 1..Len(DetectOrder) : DetectOrder[k] = x) - 1)}

\* C13 as stated: detect_issuer returns X for every path that contains the
\* identifier X, whatever the case, and "unknown" exactly when the path
\* contains none of the five identifiers.
C13_ContainedIdentifierReturned ==
    (call.fn = "detect_issuer" /\ ret.done) =>
        /\ \A x \in SupportedIssuers : Names(call.pdf_path, x) => ret.value = x
        /\ ret.value = "unknown" <=> \A x \in SupportedIssuers : ~Names(call.pdf_path, x)

\* C13: detect_issuer returns X for every path that contains the identifier
\* X, whatever the case, and none of the identifiers looked for before X
\* (the order is onecard, buildingblocks, hdfc, amex, firstcitizens); it
\* returns "unknown" exactly when the path contains none of the five.
C13_FirstContainedIdentifier ==
    (call.fn = "detect_issuer" /\ ret.done) =>
        /\ \A x \in SupportedIssuers :
              (Names(call.pdf_path, x) /\ \A y \in Before(x) : ~Names(call.pdf_path, y))
                  => ret.value = x
        /\ ret.value = "unknown" <=> \A x \in SupportedIssuers : ~Names(call.pdf_path, x)

\* a path that contains two identifiers, one of them in upper case
C13_Witness ==
    /\ call.fn = "detect_issuer"
    /\ ret.done
    /\ call.pdf_path = PathPieces.UpperHdfc \o PathPieces.OneCard
    /\ Names(call.pdf_path, "hdfc")
    /\ ret.value = "onecard"

\* the label of the institution each identifier stands for
LabelOf ==
    [onecard |-> "OneCard", buildingblocks |-> "BuildingBlocks", hdfc |-> "HDFC",
     amex |-> "AMEX", firstcitizens |-> "FirstCitizens"]

\* C14: parse_pdf with a supported identifier X runs the extractor of X and
\* no other, and the issuer of the returned record is the label of X after a
\* normal extraction, a short text and a caught exception alike, whatever
\* the document.
C14_IssuerIsExtractorsLabel ==
    (pc # "idle" /\ issuer \in SupportedIssuers) =>
        /\ extractor = issuer
        /\ pc = "returned" => result.issuer = LabelOf[issuer]
        /\ pc = "score" => result.issuer = LabelOf[issuer]

\* a caught exception in parse_buildingblocks after its searches
C14_Witness ==
    /\ pc = "returned"
    /\ issuer = "buildingblocks"
    /\ faulted
    /\ searches = 5
    /\ result.issuer = "BuildingBlocks"

\* main has ended
MainEnded == call.fn = "main" /\ ret.done

\* main was started without a path, with the path of no file, with the path
\* of a file that names none of the five issuers
NoArgument == call.args = <<>>
MissingInput == call.args # <<>> /\ ~call.file.exists
Unsupported ==
    /\ call.args # <<>>
    /\ call.file.exists
    /\ \A x \in SupportedIssuers : ~Names(call.args[1], x)

\* the records main has printed
PrintedRecords == SelectSeq(ret.out, LAMBDA l : l.line = "record")

\* C15 as stated: main ends with a nonzero status only for the unsupported
\* issuer and for a missing input file, and then prints no record and
\* appends no row; a result of a supported issuer is printed, appended to
\* the CSV file and ends with status 0.
C15_NonzeroOnlyForSentinelOrMissingFile ==
    MainEnded =>
        /\ ret.status # 0 <=> (MissingInput \/ Unsupported)
        /\ ret.status # 0 => (PrintedRecords = <<>> /\ ret.rows = <<>>)
        /\ ret.status = 0 =>
              /\ PrintedRecords = <<[line |-> "record", data |-> result]>>
              /\ ret.rows = <<Row(result)>>

\* C15: main ends with a nonzero status only when it is started without a
\* path, for a missing input file and for the unsupported issuer, and then
\* prints no record and appends no row; a result of a supported issuer,
\* whatever its confidence, is printed and ends with status 0, and its row
\* is appended to the CSV file unless writing it fails, which is reported
\* and leaves the status 0.
C15_ExitStatus ==
    MainEnded =>
        /\ ret.status # 0 <=> (NoArgument \/ MissingInput \/ Unsupported)
        /\ ret.status # 0 => (PrintedRecords = <<>> /\ ret.rows = <<>>)
        /\ ret.status = 0 =>
              /\ "error" \notin DOMAIN result
              /\ PrintedRecords = <<[line |-> "record", data |-> result]>>
              /\ \/ ret.rows = <<Row(result)>>
                 \/ /\ ret.rows = <<>>
                    /\ ret.out[Len(ret.out)].line = "failed to append to CSV"

\* a document without text under statements/HDFC/: every field none,
\* confidence 0.0, printed, appended, status 0
C15_Witness ==
    /\ MainEnded
    /\ call.file.exists
    /\ call.file.pages = <<>>
    /\ call.issuer = "hdfc"
    /\ result = EmptyRecord("HDFC")
    /\ ret.status = 0
    /\ PrintedRecords # <<>>
    /\ ret.rows = <<Row(result)>>


\* extract_text_with_ocr_fallback has returned
AcquireReturned == call.fn = "extract_text_with_ocr_fallback" /\ ret.done

\* the fallback has been announced
FellBack == \E k \in DOMAIN call.out : call.out[k] = <<"Falling back to OCR">>

\* structured extraction of document d succeeds with more than 50 characters
\* once trimmed
StructuredSucceeds(d) ==
    StructuredText(d) # Raise /\ Len(Strip(StructuredText(d))) > MinStructuredLength

\* C16: extract_text_with_ocr_fallback returns the structured text, unchanged
\* and without any OCR, exactly when structured extraction succeeded with more
\* than 50 characters once trimmed; in every other case it falls back to OCR
\* and returns the OCR output
C16_StructuredTextOrOcr ==
    AcquireReturned =>
        IF StructuredSucceeds(call.pdf_path)
        THEN /\ ret.value = StructuredText(call.pdf_path)
             /\ ~FellBack
             /\ call.page_num = 0
             /\ call.ocr_text = <<>>
        ELSE /\ FellBack
             /\ ret.value = OcrText(call.pdf_path)

\* two pages whose text layers pass the threshold only when joined are
\* returned as they are, although OCR would read something else
C16_Witness ==
    /\ AcquireReturned
    /\ Len(call.pdf_path.pages) = 2
    /\ \A k \in 1..2 : call.pdf_path.pages[k].layer = Run("a", MinStructuredLength \div 2)
    /\ OcrText(call.pdf_path) = <<"o", "n", "e", "\n", "t", "w", "o">>
    /\ ret.value = Run("a", MinStructuredLength \div 2) \o <<"\n">> \o Run("a", MinStructuredLength \div 2)

\* the OCR texts of the pages of document d that OCR does not fail on, in
\* page order
OcrKept(d) ==
    LET kept == {k \in 1..Len(d.pages) : d.pages[k].ocr # Raise}
        Nth(n) == CHOOSE k \in kept : Cardinality({j \in kept : j <= k}) = n
    IN  [n \in 1..Cardinality(kept) |-> d.pages[Nth(n)].ocr]

\* C17: text acquisition contains every failure: a failed structured
\* extraction leads to the fallback; a page OCR fails on is dropped alone and
\* the texts of the other pages are returned joined by newlines in page
\* order; a failure of the whole fallback, or no page read, gives the empty
\* text; a text is returned in every case
C17_FailuresContained ==
    AcquireReturned =>
        /\ ret.value # Raise
        /\ ret.value \in Seq(STRING)
        /\ (StructuredText(call.pdf_path) = Raise => FellBack)
        /\ (FellBack /\ call.pdf_path.exists => ret.value = JoinLines(OcrKept(call.pdf_path)))
        /\ (FellBack /\ (~call.pdf_path.exists \/ OcrKept(call.pdf_path) = <<>>) => ret.value = <<>>)

\* the text layer of the second page cannot be read and OCR fails on the first
\* page: the OCR text of the second page is returned
C17_Witness ==
    /\ AcquireReturned
    /\ Len(call.pdf_path.pages) = 2
    /\ call.pdf_path.pages[2].layer = Raise
    /\ call.pdf_path.pages[1].ocr = Raise
    /\ call.pdf_path.pages[2].ocr = <<"t", "w", "o">>
    /\ call.out = << <<"pdfplumber extraction failed">>, <<"Falling back to OCR">>, <<"OCR failed for page", 1>> >>
    /\ ret.value = <<"t", "w", "o">>


\* the fields of a mapping other than its confidence
FieldKeys == {"issuer", "card_last4", "billing_period", "payment_due_date", "minimum_due", "new_balance"}

\* one step of an extractor keeps the order of the call
InOrder ==
    LET order == <<"last4", "period", "due", "mindue", "newbal">>
    IN  \* the text is acquired once, before any search
        /\ (acquired' > acquired => searches = 0 /\ text = None /\ pc' = "check")
        /\ (searches' > searches =>
               /\ acquired = 1 /\ acquired' = 1
               /\ text # None /\ text' = text
               \* the searches come in the order of the fields, each setting its own
               /\ pc = order[searches']
               /\ \A k \in 1..Len(order) : k # searches' => found'[order[k]] = found[order[k]]
               /\ \A k \in (searches' + 1)..Len(order) : found[order[k]] = NothingFound[order[k]]
               /\ result' = result /\ result = NoResult)
        \* the mapping is built from the five fields once all are searched
        /\ (pc = "build" /\ ~faulted' =>
               /\ searches = Len(order)
               /\ result' = Record(IssuerLabel(extractor), found.last4, found.period, found.due,
                                   found.mindue, found.newbal, 0))
        \* the confidence is the last thing assigned, and nothing else with it
        /\ (pc = "score" /\ ~faulted' =>
               /\ pc' = "returned"
               /\ \A key \in FieldKeys : result'[key] = result[key]
               /\ result'.confidence = calculate_confidence(result))
        \* whatever way the extractor returns, the confidence is that of the fields
        /\ (pc' = "returned" /\ extractor' # "none" =>
               result'.confidence = calculate_confidence(result'))
        \* the returned mapping is not touched again
        /\ (pc = "returned" => pc' = "idle")

\* C18: within one extractor call the text is acquired before any search, the
\* fields are searched in the order card suffix, billing period, due date,
\* minimum due, new balance, the confidence is computed last from the filled
\* mapping and no field changes afterwards, so that the returned confidence is
\* calculate_confidence of the returned fields
C18_FixedStepOrder == [][InOrder]_vars

\* a statement with its five fields has gone through the five searches and
\* has been scored
C18_Witness ==
    /\ Returned
    /\ ~faulted
    /\ acquired = 1
    /\ searches = 5
    /\ result.card_last4 # None
    /\ result.billing_period.start # None
    /\ result.billing_period.end # None
    /\ result.payment_due_date # None
    /\ result.minimum_due # None
    /\ result.new_balance # None
    /\ result.confidence = calculate_confidence(result)
    /\ result.confidence > 0


\* extract_card_last4 has returned
Last4Returned == call.fn = "extract_card_last4" /\ ret.done

\* the keywords of the call
KeywordsOf(k) == IF k = NoKeywords THEN DefaultKeywords ELSE k

\* the masked-number pattern has a match in txt whose suffix is no year
MaskedSucceeds(txt) ==
    Search(MaskedPattern, txt).found /\ ~IsYear(Group(Search(MaskedPattern, txt), txt, 1))

\* C19: extract_card_last4 takes its three steps in strict priority: a suffix
\* of the masked-number pattern that is no year is returned whatever the other
\* steps would find; the result of the keyword step is returned only if the
\* masked step gave no match or a year; that of the line scan only if no
\* keyword gave an accepted candidate; none is returned exactly when all three
\* fail
C19_StepsInPriority ==
    Last4Returned =>
        LET txt == call.text
            byKeyword == KeywordStep(txt, KeywordsOf(call.keywords))
            byLine == LineStep(txt)
        IN  /\ (MaskedSucceeds(txt) => ret.value = Group(Search(MaskedPattern, txt), txt, 1))
            /\ (~MaskedSucceeds(txt) /\ byKeyword # None => ret.value = byKeyword)
            /\ (~MaskedSucceeds(txt) /\ byKeyword = None => ret.value = byLine)
            /\ (ret.value = None <=> ~MaskedSucceeds(txt) /\ byKeyword = None /\ byLine = None)

\* the masked suffix 5678 is returned although the keyword step finds 1234
C19_Witness ==
    /\ Last4Returned
    /\ call.text = StepTexts.MaskedThenCard
    /\ KeywordStep(call.text, KeywordsOf(call.keywords)) = <<"1", "2", "3", "4">>
    /\ LineStep(call.text) = <<"1", "2", "3", "4">>
    /\ ret.value = <<"5", "6", "7", "8">>

\* the match m in txt is accepted: its four digits are no year and one of the
\* corroborating terms lies within 50 characters before and after the match
Corroborated(txt, m) ==
    /\ ~(1900 <= ToInt(Group(m, txt, 1)) /\ ToInt(Group(m, txt, 1)) <= 2099)
    /\ \E term \in {<<"c", "a", "r", "d">>, <<"a", "c", "c", "o", "u", "n", "t">>,
                    <<"n", "u", "m", "b", "e", "r">>, <<"e", "n", "d", "i", "n", "g">>,
                    <<"x", "x", "x", "x">>} :
          \E p \in 1..Len(txt) :
              /\ p >= m.start - 50
              /\ p + Len(term) - 1 <= m.end - 1 + 50
              /\ p + Len(term) - 1 <= Len(txt)
              /\ \A k \in 1..Len(term) : Lower(txt[p + k - 1]) = term[k]

\* C20: when the masked step gives nothing, the keywords are tried in the
\* order given and the matches of one keyword from the last to the first; a
\* match is accepted only if its digits are no year in 1900..2099 and a
\* corroborating term lies within 50 characters around it; the first accepted
\* candidate is returned, and the line scan decides when there is none
C20_KeywordStep ==
    Last4Returned /\ ~MaskedSucceeds(call.text) =>
        LET txt == call.text
            kws == KeywordsOf(call.keywords)
            Matches(k) == FindIter(KeywordPattern(kws[k]), txt)
            Accepted(k) == {j \in 1..Len(Matches(k)) : Corroborated(txt, Matches(k)[j])}
            accepting == {k \in 1..Len(kws) : Accepted(k) # {}}
        IN  IF accepting = {} THEN ret.value = LineStep(txt)
            ELSE ret.value = Group(Matches(SetMin(accepting))[SetMax(Accepted(SetMin(accepting)))], txt, 1)

\* Account comes first in the list and has no match; Card has two, and the
\* number after the last is a year: the number after the first is returned
C20_Witness ==
    /\ Last4Returned
    /\ call.text = StepTexts.CardThenYear
    /\ call.keywords = <<W.Account, W.Card, W.Number>>
    /\ Len(FindIter(KeywordPattern(W.Account), call.text)) = 0
    /\ Len(FindIter(KeywordPattern(W.Card), call.text)) = 2
    /\ ret.value = <<"1", "2", "3", "4">>


\* an extractor has searched the text it acquired and returned its mapping
Searched == Returned /\ ~faulted /\ searches = Len(Fields)

\* the text the extractor has searched
SearchedText == extract_text_with_ocr_fallback(doc)

\* the extractors with a fallback label for the balance, and the two patterns
BalanceLabels ==
    [amex |-> <<AmountPattern(Alt(<<L.NewBalance, L.TotalDue>>)), AmountPattern(L.TotalAmountDue)>>,
     buildingblocks |-> <<AmountPattern(L.NewBalance), AmountPattern(L.TotalAmountDue)>>]

\* the extractors with a fallback label for the period, and the two patterns
PeriodLabels ==
    [buildingblocks |-> <<PeriodPattern(L.OpeningClosingDate, Class.DigitDash),
                          PeriodPattern(Alt(<<L.BillingPeriod, L.StatementPeriod>>), Class.DigitDash)>>,
     hdfc |-> <<PeriodPattern(L.StatementPeriod, Class.Word),
                PeriodPattern(Alt(<<L.BillingPeriod, L.BillingCycle>>), Class.Word)>>]

\* the amount in the match m of txt, and the period in it
AmountIn(m, txt) == normalize_currency(StrArg(Group(m, txt, 1)))
PeriodIn(m, txt) ==
    [start |-> normalize_date(Strip(Group(m, txt, 1))),
     end |-> normalize_date(Strip(Group(m, txt, 2)))]

\* C21: where an extractor has a fallback label for a field, the field is the
\* normalization of the match of the primary pattern whenever that pattern
\* matches, readable or not; the match of the fallback pattern decides only
\* when the primary pattern has no match in the text
C21_FallbackOnlyWithoutPrimary ==
    Searched =>
        /\ (extractor \in DOMAIN BalanceLabels =>
              LET primary == Search(BalanceLabels[extractor][1], SearchedText)
                  fallback == Search(BalanceLabels[extractor][2], SearchedText)
              IN  result.new_balance =
                      IF primary.found THEN AmountIn(primary, SearchedText)
                      ELSE IF fallback.found THEN AmountIn(fallback, SearchedText)
                      ELSE None)
        /\ (extractor \in DOMAIN PeriodLabels =>
              LET primary == Search(PeriodLabels[extractor][1], SearchedText)
                  fallback == Search(PeriodLabels[extractor][2], SearchedText)
              IN  result.billing_period =
                      IF primary.found THEN PeriodIn(primary, SearchedText)
                      ELSE IF fallback.found THEN PeriodIn(fallback, SearchedText)
                      ELSE [start |-> None, end |-> None])

\* the primary label of parse_amex has no readable amount and the fallback
\* label has one: the balance is none
C21_Witness ==
    /\ Searched
    /\ extractor = "amex"
    /\ SearchedText = LabelTexts.BalanceUnreadable
    /\ Search(BalanceLabels.amex[1], SearchedText).found
    /\ AmountIn(Search(BalanceLabels.amex[2], SearchedText), SearchedText) = <<"2", "0", "0", ".", "0">>
    /\ result.new_balance = None


\* the period patterns of each extractor
PeriodPatterns ==
    [onecard |-> <<Cat(<<DayMonthYear(1), Dash, DayMonthYear(2)>>),
                   Cat(<<NumericDate(1), Dash, NumericDate(2)>>)>>,
     buildingblocks |-> PeriodLabels.buildingblocks,
     hdfc |-> PeriodLabels.hdfc,
     amex |-> <<PeriodPattern(Alt(<<L.StatementPeriod, L.BillingCycle>>), Class.Word)>>,
     firstcitizens |-> <<PeriodPattern(Alt(<<L.BillingCycle, L.StatementPeriod>>), Class.Word)>>]

\* C22: in every record an extractor returns, the two ends of the billing
\* period are both unset unless one match of one pattern supplied both: the
\* start and the end are the normalizations of the two groups of the same
\* match
C22_PeriodFromOneMatch ==
    Returned =>
        \/ result.billing_period = [start |-> None, end |-> None]
        \/ /\ Searched
           /\ \E k \in DOMAIN PeriodPatterns[extractor] :
                 /\ Search(PeriodPatterns[extractor][k], SearchedText).found
                 /\ result.billing_period =
                        PeriodIn(Search(PeriodPatterns[extractor][k], SearchedText), SearchedText)

\* the text has a period under each of the two labels of parse_hdfc: both
\* ends come from the first
C22_Witness ==
    /\ Searched
    /\ extractor = "hdfc"
    /\ SearchedText = LabelTexts.BothPeriods
    /\ \A k \in 1..2 : Search(PeriodPatterns.hdfc[k], SearchedText).found
    /\ PeriodIn(Search(PeriodPatterns.hdfc[2], SearchedText), SearchedText).end
           = <<"2", "0", "2", "5", "-", "0", "2", "-", "2", "8">>
    /\ result.billing_period = [start |-> <<"2", "0", "2", "5", "-", "0", "1", "-", "0", "1">>,
                                end |-> <<"2", "0", "2", "5", "-", "0", "1", "-", "3", "1">>]


\* C23: during text acquisition at most one document handle is open at any
\* time: the handle of the structured attempt is released before the length
\* check and before the fallback opens its own, and none is open when
\* extract_text_with_ocr_fallback returns, normally or after a caught failure
C23_OneHandleAtMost ==
    call.fn = "extract_text_with_ocr_fallback" =>
        /\ call.handles \in {0, 1}
        /\ (call.at \in {"check", "fallback", "join", "returned"} => call.handles = 0)
        /\ (call.handles = 1 <=> call.at \in {"read", "ocr"})
        /\ (ret.done => call.handles = 0)

\* the text layer of a page cannot be read and OCR fails on a page: both
\* handles have been opened and released, and the text of the other page is
\* returned
C23_Witness ==
    /\ AcquireReturned
    /\ call.handles = 0
    /\ call.out = << <<"pdfplumber extraction failed">>, <<"Falling back to OCR">>, <<"OCR failed for page", 2>> >>
    /\ ret.value = <<"o", "n", "e">>


\* the structured text of the document has between 10 and 50 characters once
\* trimmed, and OCR fails on every page or reads nothing
ThinAndUnread ==
    /\ doc.exists
    /\ StructuredText(doc) # Raise
    /\ Len(Strip(StructuredText(doc))) \in 10..50
    /\ \A k \in 1..Len(doc.pages) : doc.pages[k].ocr \in {Raise, <<>>}

\* C24: a document whose structured text has between 10 and 50 trimmed
\* characters and which OCR reads nothing from gives the record with every
\* field none and confidence 0: the structured text is dropped by the
\* acquisition and never searched
C24_ThinLayerDiscarded ==
    (extractor # "none" /\ ThinAndUnread) =>
        /\ pc \notin SearchSteps \cup {"build", "score"}
        /\ searches = 0
        /\ (pc = "check" => text = <<>>)
        /\ (pc = "returned" => result = EmptyRecord(IssuerLabel(extractor)))

\* the text layer has 50 characters, among them a card number parse_amex
\* would find, and OCR fails: the record is empty
C24_Witness ==
    /\ Returned
    /\ ~faulted
    /\ extractor = "amex"
    /\ doc.pages = <<[layer |-> ThinTexts.Fifty, ocr |-> Raise]>>
    /\ Len(Strip(StructuredText(doc))) = 50
    /\ parse_amex(StructuredText(doc), "last4") = <<"1", "2", "3", "4">>
    /\ result = EmptyRecord("AMEX")
    /\ result.confidence = 0

====
